---- MODULE Spec2Model ----
(***************************************************************************)
(* Model of the Naramarket crawl pipeline: the retrying API clients        *)
(* (src/src/core/client.py, src/src/core/async_client.py), the window      *)
(* planner and the page crawlers (src/src/services/crawler.py,             *)
(* src/src/services/async_crawler.py), and the token store of the          *)
(* AuthService (src/src/services/auth.py).                                 *)
(*                                                                         *)
(* The entry points modelled are selected by the variable mode:            *)
(*   "retry"   one retry-wrapped call of the synchronous client            *)
(*   "sync"    CrawlingService.crawl_to_csv, from its arguments to its     *)
(*             result                                                      *)
(*   "pages"   the page loop of CrawlingService._crawl_window, up to its   *)
(*             page limit                                                  *)
(*   "chain"   a run of crawl_to_csv cut by a budget and its follow-ups    *)
(*   "async"   AsyncNaramarketClient.crawl_multiple_pages                  *)
(*   "window"  AsyncCrawlingService._crawl_window_async                    *)
(*   "client"  overlapping runs inside "async with async_client"           *)
(*   "convert" CrawlingService._convert_temp_to_csv on a given log         *)
(*   "auth"    calls of the AuthService                                    *)
(***************************************************************************)
EXTENDS Integers, Sequences, FiniteSets, TLC

\* ---------------------------------------------------------------- constants

MAX_RETRIES == 3

\* RETRY_BACKOFF_BASE = 0.75 = BackoffNum / BackoffDen
BackoffNum == 3

BackoffDen == 4

\* wait times are kept in units of 1/SleepUnit second, so that
\* RETRY_BACKOFF_BASE ** attempt is an integer for every attempt < MAX_RETRIES
SleepUnit == 16

DEFAULT_MAX_PAGES == 999

\* numOfRows of every list request of the crawlers
NUM_ROWS == 100

\* ------------------------------------------------------------------- bounds

\* runs of a chain: a run cut by a budget and its follow-up runs
MaxChainRuns == 3

\* the most pages the upstream holds for a window whose page loop is followed
\* to the page limit
MaxUpstreamPages == 1001

\* runs that use the shared async client, and requests a run issues
MaxRuns == 2

MaxRunRequests == 2

\* largest total_days of a run
MaxTotalDays == 5

\* largest window_days of a run
MaxWindowDays == 3

\* largest max_windows_per_call of a run (0 = unlimited)
MaxWindowsCap == 1

\* the upstream list API returns at most this many items on a page
MaxItems == 2

\* the upstream stops returning items once the log holds this many records
MaxLog == 2

\* the upstream fails at most this many requests of an async run
MaxFailures == 3

\* max_concurrent_requests of the async client under test (default 10)
MaxConcurrent == 2

\* the longest intermediate log given to a conversion, in lines
MaxLines == 2

\* the most pages of a window for which the upstream holds items
MaxDataPages == 4

\* the most page crawls of a window that fail
MaxPageFailures == 1

\* the largest max_concurrent_pages of an async window
MaxConcurrentPages == 2

\* the latest time of the AuthService, in seconds
MaxAuthTime == 2

\* the longest expires_delta of a token, in seconds
MaxExpiresDelta == 1

\* the most tokens the store holds
MaxTokens == 2

\* ------------------------------------------------------------------ helpers

RECURSIVE Pow(_, _)
Pow(b, n) == IF n = 0 THEN 1 ELSE b * Pow(b, n - 1)

Max(a, b) == IF a >= b THEN a ELSE b

Min(a, b) == IF a <= b THEN a ELSE b

\* d.get(k, ""): the value of key k of a mapping, "" when absent
Get(d, k) == IF k \in DOMAIN d THEN d[k] ELSE ""

\* {**a, **b}: the keys of both, b's value where both have the key
Merge(a, b) == b @@ a

\* ---------------------------------------------------------------- calendar
\* A datetime is the number of days since 2023-12-01 (its time of day never
\* changes in the arithmetic of the crawler: only whole days are added).

\* datetime.strftime(DATE_FMT), DATE_FMT = "%Y%m%d", as the number YYYYMMDD
strftime(d) ==
    IF d < 31 THEN 20231201 + d
    ELSE IF d < 62 THEN 20240101 + (d - 31)
    ELSE 20240201 + (d - 62)

\* datetime.strptime(s, DATE_FMT)
strptime(s) ==
    IF s \div 100 = 202312 THEN (s % 100) - 1
    ELSE IF s \div 100 = 202401 THEN 31 + (s % 100) - 1
    ELSE 62 + (s % 100) - 1

\* the anchor_end_date values a run is started with
AnchorDates == {20240103}

\* the max_runtime_sec values a run is started with
RuntimeBudgets == {0}

\* ------------------------------------------------------- upstream responses
\* A list item is a mapping of string keys to string values.  The upstream
\* catalogue: item i carries an identity number and a standard number; item 2
\* also names its manufacturer.

ItemNo == <<"1", "2", "3", "4">>

Item(i) ==
    IF i = 2
    THEN [prdctIdntNo |-> ItemNo[i], prdctStndrdNo |-> ItemNo[i], mnfcturCmpnyNm |-> "m"]
    ELSE [prdctIdntNo |-> ItemNo[i], prdctStndrdNo |-> ItemNo[i]]

\* the items of a list page holding n items
PageItems(n) == [i \in 1..n |-> Item(i)]

\* A JSON response body: a list response carries items (with the shape they
\* arrive in), a detail response carries resultList.
Response(shape, items, resultList) ==
    [shape |-> shape, items |-> items, resultList |-> resultList]

NoResponse == Response("absent", <<>>, <<>>)

\* the shapes of response.body.items: a list, {"item": [...]}, {"item": {...}}
\* (one item only), or absent / any other type
ListResponses ==
    {Response("list", PageItems(n), <<>>) : n \in 0..MaxItems}
    \cup {Response("item_list", PageItems(n), <<>>) : n \in 1..MaxItems}
    \cup {Response("item_dict", PageItems(1), <<>>), NoResponse}

\* extract_g2b_params: the fixed-width detail payload of a list item
G2BFields ==
    {"prdctClsfcNoFst", "prdctClsfcNoScnd", "prdctClsfcNoThrd", "prdctClsfcNoFrth",
     "prdctClsfcNoFfth", "prdctStndrdNo", "mnfcturCmpnyNm", "mfgCmpnyNm",
     "mfgCmpnyNm2", "mfgCmpnyNm3", "mfgCmpnyNm4", "mfgCmpnyNm5"}

extract_g2b_params(api_item) == [k \in G2BFields |-> Get(api_item, k)]

\* what the detail API may answer to a payload: no attribute entries, or an
\* entry with an empty value followed by an entry whose value names the
\* product the payload asked about
DetailResponses(payload) ==
    LET spec == [prdctAtrbNm |-> "spec", prdctAtrbVl |-> payload["prdctStndrdNo"]]
        blank == [prdctAtrbNm |-> "color", prdctAtrbVl |-> ""]
    IN  {Response("absent", <<>>, <<>>),
         Response("absent", <<>>, <<blank, spec>>)}

\* the items normalisation of the page crawlers
NormalizeItems(resp) ==
    CASE resp.shape = "list" -> resp.items
      [] resp.shape = "item_list" -> resp.items
      [] resp.shape = "item_dict" -> <<resp.items[1]>>
      [] OTHER -> <<>>

\* the attributes folded out of a detail response's resultList
RECURSIVE FoldAttributes(_, _)
FoldAttributes(result_list, attributes) ==
    IF result_list = <<>> THEN attributes
    ELSE LET attr_item == Head(result_list)
             attr_name == attr_item.prdctAtrbNm
             attr_value == attr_item.prdctAtrbVl
         IN  FoldAttributes(
                 Tail(result_list),
                 IF attr_name # "" /\ attr_value # ""
                 THEN Merge(attributes, (attr_name :> attr_value))
                 ELSE attributes)

NoAttributes == [k \in {} |-> ""]

ParseAttributes(detail_response) ==
    FoldAttributes(detail_response.resultList, NoAttributes)

\* ------------------------------------------------------------ retry wrapper
\* An attempt of the wrapped function either returns a response or raises.

Returns(v) == [ok |-> TRUE, val |-> v, exc |-> "-"]

Raises(e) == [ok |-> FALSE, val |-> NoResponse, exc |-> e]

\* RETRY_BACKOFF_BASE ** attempt, in 1/SleepUnit seconds
WaitTime(attempt) ==
    (SleepUnit * Pow(BackoffNum, attempt)) \div Pow(BackoffDen, attempt)

\* the events of one wrapped call, in order
CallEv(attempt) == [ev |-> "call", n |-> attempt]

SleepEv(wait_time) == [ev |-> "sleep", n |-> wait_time]

\* the result of a wrapped call: it raised exc, or returned val
Raised(e, trace) == [raised |-> TRUE, val |-> NoResponse, exc |-> e, trace |-> trace]

Returned(v, trace) == [raised |-> FALSE, val |-> v, exc |-> "-", trace |-> trace]

BackoffSleepAlways(attempt, trace) == Append(trace, SleepEv(WaitTime(attempt)))

\* the sleep of the except branch: only when another attempt follows
BackoffSleep(attempt, trace) ==
    IF attempt < MAX_RETRIES - 1
    THEN Append(trace, SleepEv(WaitTime(attempt)))
    ELSE trace

\* the for loop of retryable.wrapper from iteration attempt on; outs[k + 1]
\* is what the wrapped function does when it is called the (k+1)-th time
RECURSIVE RetryLoop(_, _, _, _)
RetryLoop(outs, attempt, last_exception, trace) ==
    IF attempt >= MAX_RETRIES
    THEN Raised(last_exception, trace)
    ELSE LET o == outs[attempt + 1]
             called == Append(trace, CallEv(attempt))
         IN  IF o.ok
             THEN Returned(o.val, called)
             ELSE RetryLoop(outs, attempt + 1, o.exc, BackoffSleep(attempt, called))

retryableSwallowing(outs) ==
    LET r == RetryLoop(outs, 0, "-", <<>>)
    IN  IF r.raised THEN Returned(NoResponse, r.trace) ELSE r

\* retryable.wrapper: the loop, then raise last_exception
retryable(outs) == RetryLoop(outs, 0, "-", <<>>)

\* What the network does to the attempts of one call: the first fails attempts
\* raise (the k-th raises Exc[k]), the later ones return answer.
Exc == <<"e1", "e2", "e3">>

Attempts(fails, answer) ==
    [a \in 1..MAX_RETRIES |-> IF a <= fails THEN Raises(Exc[a]) ELSE Returns(answer)]

\* every attempt raises
AllFail == Attempts(MAX_RETRIES, NoResponse)

\* the attempt sequences of a call whose successful answer is in answers
AttemptSeqs(answers) ==
    {Attempts(f, r) : f \in 0..(MAX_RETRIES - 1), r \in answers} \cup {AllFail}

\* ------------------------------------------------------------ column names
\* A name (a key of a record, a column of the header) is a sequence of
\* characters, so that sanitising and sorting act on its characters.

Lower ==
    <<"a", "b", "c", "d", "e", "f", "g", "h", "i", "j", "k", "l", "m",
      "n", "o", "p", "q", "r", "s", "t", "u", "v", "w", "x", "y", "z">>

Upper ==
    <<"A", "B", "C", "D", "E", "F", "G", "H", "I", "J", "K", "L", "M",
      "N", "O", "P", "Q", "R", "S", "T", "U", "V", "W", "X", "Y", "Z">>

Digits == <<"0", "1", "2", "3", "4", "5", "6", "7", "8", "9">>

\* the code points of the characters of the names
CodePoints ==
    (" " :> 32) @@ ("(" :> 40) @@ (")" :> 41) @@ ("_" :> 95)
    @@ [c \in {Digits[i] : i \in 1..10} |-> 47 + (CHOOSE i \in 1..10 : Digits[i] = c)]
    @@ [c \in {Upper[i] : i \in 1..26} |-> 64 + (CHOOSE i \in 1..26 : Upper[i] = c)]
    @@ [c \in {Lower[i] : i \in 1..26} |-> 96 + (CHOOSE i \in 1..26 : Lower[i] = c)]

\* the code point of a character: str comparison orders by code point
ord(c) == CodePoints[c]

\* \w of the regular expression (the Hangul range it adds is part of \w)
IsWordChar(c) ==
    LET o == ord(c)
    IN  o \in 48..57 \/ o \in 65..90 \/ o = 95 \/ o \in 97..122

\* re.sub(r'_+', '_', name)
RECURSIVE CollapseUnderscores(_)
CollapseUnderscores(name) ==
    IF Len(name) < 2 THEN name
    ELSE IF name[1] = "_" /\ name[2] = "_" THEN CollapseUnderscores(Tail(name))
    ELSE <<name[1]>> \o CollapseUnderscores(Tail(name))

\* name.strip('_')
RECURSIVE StripUnderscores(_)
StripUnderscores(name) ==
    IF name = <<>> THEN name
    ELSE IF name[1] = "_" THEN StripUnderscores(Tail(name))
    ELSE IF name[Len(name)] = "_"
         THEN StripUnderscores(SubSeq(name, 1, Len(name) - 1))
    ELSE name

UNKNOWN == <<"u", "n", "k", "n", "o", "w", "n">>

sanitize_column_name(name) ==
    LET replaced == [i \in 1..Len(name) |-> IF IsWordChar(name[i]) THEN name[i] ELSE "_"]
        stripped == StripUnderscores(CollapseUnderscores(replaced))
    IN  IF stripped = <<>> THEN UNKNOWN ELSE stripped

\* the names of a list, each sanitised when sanitize is set
RECURSIVE SanitizeAll(_, _)
SanitizeAll(names, sanitize) ==
    IF names = <<>> THEN <<>>
    ELSE <<IF sanitize THEN sanitize_column_name(Head(names)) ELSE Head(names)>>
         \o SanitizeAll(Tail(names), sanitize)

\* a < b for two names, as Python compares str
RECURSIVE LexLess(_, _)
LexLess(a, b) ==
    IF a = <<>> THEN b # <<>>
    ELSE IF b = <<>> THEN FALSE
    ELSE IF ord(a[1]) # ord(b[1]) THEN ord(a[1]) < ord(b[1])
    ELSE LexLess(Tail(a), Tail(b))

\* sorted(names): the names of a set in increasing order
RECURSIVE sorted(_)
sorted(names) ==
    IF names = {} THEN <<>>
    ELSE LET least == CHOOSE x \in names : \A y \in names : x = y \/ LexLess(x, y)
         IN  <<least>> \o sorted(names \ {least})

Range(seq) == {seq[i] : i \in 1..Len(seq)}

ATTRIBUTES == <<"a", "t", "t", "r", "i", "b", "u", "t", "e", "s">>

ATTRIBUTES_JSON == ATTRIBUTES \o <<"_", "j", "s", "o", "n">>

ATTR_PREFIX == <<"a", "t", "t", "r", "_">>

WINDOW_START == <<"w", "i", "n", "d", "o", "w", "_", "s", "t", "a", "r", "t">>

WINDOW_END == <<"w", "i", "n", "d", "o", "w", "_", "e", "n", "d">>

DETAIL_SUCCESS ==
    <<"d", "e", "t", "a", "i", "l", "_", "s", "u", "c", "c", "e", "s", "s">>

\* ------------------------------------------------ the intermediate log file
\* A decoded JSON object is the sequence of its <<key, value>> pairs, in the
\* order of the line (a dict keeps the order of insertion).  A line of the log
\* is a record, a blank line, or text that json.loads cannot decode.

keys(obj) == [i \in 1..Len(obj) |-> obj[i][1]]

\* obj.get(k, default)
dict_get(obj, k, default) ==
    IF \E i \in 1..Len(obj) : obj[i][1] = k
    THEN obj[CHOOSE i \in 1..Len(obj) : obj[i][1] = k][2]
    ELSE default

RecordLine(obj) == [kind |-> "record", obj |-> obj]

GarbageLine == [kind |-> "garbage", obj |-> <<>>]

BlankLine == [kind |-> "blank", obj |-> <<>>]

\* json.loads(line) raises JSONDecodeError
JSONDecodeErrorNever(line) == FALSE

JSONDecodeError(line) == line.kind = "garbage"

\* the records a pass over the log reads: blank lines and the lines that do
\* not decode are passed over
ReadRecords(log) ==
    LET read == SelectSeq(log, LAMBDA l : l.kind # "blank" /\ ~JSONDecodeError(l))
    IN  [i \in 1..Len(read) |-> read[i].obj]

\* json.dumps(attributes, ensure_ascii=False)
json_dumps(attributes) == [json |-> attributes]

\* ------------------------------------- CrawlingService._convert_temp_to_csv

\* the output file: its rows, the header row first
NoFile == [exists |-> FALSE, lines |-> <<>>]

\* existing_header: None, or the first row of the existing output file
NoHeader == [some |-> FALSE, cols |-> <<>>]

\* the existing header crawl_to_csv reads before the crawl
ReadExistingHeader(append, out) ==
    IF append /\ out.exists /\ out.lines # <<>>
    THEN [some |-> TRUE, cols |-> out.lines[1]]
    ELSE NoHeader

\* first pass: the keys of the records, the key attributes left out
AllBasicCols(recs) ==
    UNION {Range(keys(recs[i])) \ {ATTRIBUTES} : i \in 1..Len(recs)}

\* first pass: the keys of the attributes of the records
AllAttrCols(recs) ==
    UNION {Range(keys(dict_get(recs[i], ATTRIBUTES, <<>>))) : i \in 1..Len(recs)}

\* the sorted columns, sanitised after the sort when sanitize is set
SortedCols(cols, sanitize) == SanitizeAll(sorted(cols), sanitize)

\* the final header
BuildHeader(basic_cols_sorted, attr_cols_sorted, explode_attributes) ==
    IF explode_attributes
    THEN basic_cols_sorted
         \o [i \in 1..Len(attr_cols_sorted) |-> ATTR_PREFIX \o attr_cols_sorted[i]]
    ELSE basic_cols_sorted \o <<ATTRIBUTES_JSON>>

NewColumnsNone(header, existing_header) == {}

\* new_cols = set(header) - set(existing_header)
NewColumns(header, existing_header) == Range(header) \ Range(existing_header)

\* the key of the record a basic column is read from: the first key whose
\* sanitised name is the column (sanitized holds the sanitised keys ks)
OriginalCol(ks, sanitized, col, sanitize) ==
    LET found == {i \in 1..Len(ks) : sanitized[i] = col}
    IN  IF sanitize /\ found # {}
        THEN ks[CHOOSE i \in found : \A j \in found : i <= j]
        ELSE col

\* the column an attribute column is written to
AttrColName(attr_col, sanitize) ==
    ATTR_PREFIX \o (IF sanitize THEN sanitize_column_name(attr_col) ELSE attr_col)

\* row_data of a record: the basic columns, then the attribute columns, then
\* the metadata columns; a later assignment replaces an earlier one
RowData(record, basic_cols_sorted, attr_cols_sorted, explode_attributes, sanitize) ==
    LET attributes == dict_get(record, ATTRIBUTES, <<>>)
        ks == keys(record)
        sanitized == SanitizeAll(ks, sanitize)
        basic == [col \in Range(basic_cols_sorted) |->
                     dict_get(record, OriginalCol(ks, sanitized, col, sanitize), "")]
        at(col_name) ==
            CHOOSE i \in 1..Len(attr_cols_sorted) :
                /\ AttrColName(attr_cols_sorted[i], sanitize) = col_name
                /\ \A j \in 1..Len(attr_cols_sorted) :
                       AttrColName(attr_cols_sorted[j], sanitize) = col_name => j <= i
        attrs ==
            IF explode_attributes
            THEN [col_name \in {AttrColName(attr_cols_sorted[i], sanitize) :
                                   i \in 1..Len(attr_cols_sorted)} |->
                     dict_get(attributes, attr_cols_sorted[at(col_name)], "")]
            ELSE (ATTRIBUTES_JSON :> json_dumps(attributes))
        metadata ==
            (WINDOW_START :> dict_get(record, WINDOW_START, ""))
            @@ (WINDOW_END :> dict_get(record, WINDOW_END, ""))
            @@ (DETAIL_SUCCESS :>
                    IF dict_get(record, DETAIL_SUCCESS, FALSE) = TRUE THEN "1" ELSE "0")
    IN  Merge(Merge(basic, attrs), metadata)

\* the row of a record, in header order
BuildRow(row_data, header) == [i \in 1..Len(header) |-> Get(row_data, header[i])]

FileModeAppend(append, existing_header) == "a"

\* the mode the output file is opened in
FileMode(append, existing_header) ==
    IF append /\ existing_header.some THEN "a" ELSE "w"

\* the arguments of a conversion
ConvertOpts ==
    [append : BOOLEAN, fail_on_new_columns : BOOLEAN,
     explode_attributes : BOOLEAN, sanitize : BOOLEAN]

\* the result of the branch that rejects new columns
NewColumnsFailure(new_cols) ==
    [success |-> FALSE, error |-> "New columns detected in append mode",
     new_columns |-> new_cols]

\* the result of the except branch
ConversionFailure ==
    [success |-> FALSE, error |-> "CSV conversion failed", output_csv |-> "out.csv"]

\* _convert_temp_to_csv: its result and the output file it leaves; raises
\* tells whether opening the files raises
convert_temp_to_csv(log, out, existing_header, o, raises) ==
    LET recs == ReadRecords(log)
        basic_cols_sorted == SortedCols(AllBasicCols(recs), o.sanitize)
        attr_cols_sorted == SortedCols(AllAttrCols(recs), o.sanitize)
        built == BuildHeader(basic_cols_sorted, attr_cols_sorted, o.explode_attributes)
        new_cols == IF existing_header.some
                    THEN NewColumns(built, existing_header.cols)
                    ELSE {}
        header == IF new_cols # {} THEN existing_header.cols ELSE built
        file_mode == FileMode(o.append, existing_header)
        rows == [i \in 1..Len(recs) |->
                    BuildRow(RowData(recs[i], basic_cols_sorted, attr_cols_sorted,
                                     o.explode_attributes, o.sanitize),
                             header)]
    IN  IF raises
        THEN [res |-> ConversionFailure, out |-> out, header |-> <<>>]
        ELSE IF new_cols # {} /\ o.fail_on_new_columns
        THEN [res |-> NewColumnsFailure(new_cols), out |-> out, header |-> <<>>]
        ELSE [res |-> [success |-> TRUE,
                       output_csv |-> "out.csv",
                       rows |-> Len(rows),
                       basic_columns |-> basic_cols_sorted,
                       attr_columns |->
                           IF o.explode_attributes THEN attr_cols_sorted ELSE <<>>,
                       explode_attributes |-> o.explode_attributes,
                       sanitize |-> o.sanitize,
                       append_mode |-> o.append,
                       existing_header_used |-> existing_header.some],
              out |-> [exists |-> TRUE,
                       lines |-> IF file_mode = "w"
                                 THEN <<header>> \o rows
                                 ELSE out.lines \o rows],
              header |-> header]

\* no conversion yet
NoOpts ==
    [append |-> FALSE, fail_on_new_columns |-> FALSE,
     explode_attributes |-> FALSE, sanitize |-> FALSE]

NoConv ==
    [n |-> 0, log |-> <<>>, opts |-> NoOpts, before |-> NoFile,
     res |-> ConversionFailure, header |-> <<>>,
     prev |-> [opts |-> NoOpts, res |-> ConversionFailure, header |-> <<>>]]

\* crawl_to_csv has not returned
NoFinal == [success |-> FALSE, error |-> "-"]

\* ------------------------------------------------------------- AuthService
\* Time is in whole seconds, the resolution of the exp claim of a token.

\* the users of users_db
AuthSubjects == {"admin", "user"}

\* no payload
NoClaims == [sub |-> "-", type |-> "-", iat |-> 0, exp |-> 0]

\* jwt.encode: the token, which carries its payload
jwt_encode(to_encode) == [jwt |-> to_encode]

\* jwt.decode raises ExpiredSignatureError
ExpiredSignatureError(token, now) == token.jwt.exp <= now

\* None, or the payload a call returned
NoneReturned == [ok |-> FALSE, payload |-> NoClaims]

\* the store without the key token
Without(active_tokens, token) ==
    [t \in (DOMAIN active_tokens) \ {token} |-> active_tokens[t]]

\* no token
EmptyStore == [t \in {} |-> 0]

\* create_access_token: the token and the store after it
create_access_token(active_tokens, data, expires_delta, now) ==
    LET expire == now + expires_delta
        to_encode == [sub |-> data.sub, type |-> "access", iat |-> now, exp |-> expire]
        token == jwt_encode(to_encode)
    IN  [ret |-> token,
         active_tokens |->
             (token :> [data |-> to_encode, created_at |-> now, expires_at |-> expire])
             @@ active_tokens]

revoke_tokenKeeping(active_tokens, token) ==
    [ret |-> token \in DOMAIN active_tokens, active_tokens |-> active_tokens]

\* revoke_token: what it returns and the store after it
revoke_token(active_tokens, token) ==
    IF token \in DOMAIN active_tokens
    THEN [ret |-> TRUE, active_tokens |-> Without(active_tokens, token)]
    ELSE [ret |-> FALSE, active_tokens |-> active_tokens]

\* verify_token: what it returns and the store after it
verify_token(active_tokens, token, now) ==
    IF token \notin DOMAIN active_tokens
    THEN [ret |-> NoneReturned, active_tokens |-> active_tokens]
    ELSE IF ExpiredSignatureError(token, now)
    THEN [ret |-> NoneReturned,
          active_tokens |-> revoke_token(active_tokens, token).active_tokens]
    ELSE [ret |-> [ok |-> TRUE, payload |-> token.jwt],
          active_tokens |-> active_tokens]

\* the tokens a caller can present at the time now: those create_access_token
\* can have returned
AllTokens(now) ==
    {jwt_encode([sub |-> sub, type |-> "access", iat |-> iat, exp |-> iat + d]) :
        sub \in AuthSubjects, iat \in 0..now, d \in 0..MaxExpiresDelta}

\* no call of the AuthService yet; a call is kept with its token, what it
\* returned (for revoke_token, ok is the value returned), the time, the
\* store before it, and the call before it
NoAuthCall ==
    [op |-> "-", token |-> jwt_encode(NoClaims), ret |-> NoneReturned, now |-> 0,
     before |-> EmptyStore,
     prev |-> [op |-> "-", token |-> jwt_encode(NoClaims), ok |-> FALSE]]

NoAuth == [active_tokens |-> EmptyStore, now |-> 0, last |-> NoAuthCall]

\* ------------------------------------- the global AsyncNaramarketClient

\* the runs (crawl_to_csv_async, crawl_category_detailed_async) that may be
\* inside "async with async_client" at the same time
Runs == 1..MaxRuns

\* self.session is None
None == 0

\* a run that has not reached its async with block: own is the session its
\* __aenter__ created, requests the outcome of each of its requests
NoClientRun == [pc |-> "idle", own |-> None, requests |-> <<>>]

\* the client after __init__: no session; opened counts the sessions created
\* and closed the calls of close() on each of them
NoClient ==
    [session |-> None, opened |-> 0,
     closed |-> [i \in 1..MaxRuns |-> 0],
     run |-> [r \in Runs |-> NoClientRun]]

\* what self.session is after __aenter__ created the session fresh
aenter(session, fresh) == fresh

\* the outcome of a request of a run whose own session is own: the session it
\* goes through, or RuntimeError when there is none
RequestOutcome(session, own) ==
    [raised |-> session = None, via |-> session, own |-> own]

\* -------------------------------------------------------------- the state

VARIABLES
    mode,       \* the entry point in progress ("idle": none yet, "finished": over)
    call,       \* retry: the attempts of the wrapped call and its result
    pc,         \* sync: where crawl_to_csv stands
    run,        \* sync: the arguments of the run, start_date and end_date
    loop,       \* sync: the locals of _crawl_windows_to_temp
    win,        \* sync: the locals of _crawl_window
    temp_f,     \* sync: the intermediate log, one record per line
    clock,      \* sync: time.time() - start_time, in whole seconds
    hist,       \* sync: the windows crawled and the list requests issued
    result,     \* sync: what _crawl_windows_to_temp returned
    sem,        \* async: the permits left in the client's semaphore
    task,       \* async: the retry-wrapped calls (list and detail) of the pages
    apage,      \* async: the crawl_page_with_details calls
    done_order, \* async: the detail calls in the order they completed
    conv,       \* convert: the conversions of a log, their arguments and results
    output_csv, \* the output file
    temp_ndjson,\* the intermediate log file: "none", "present" or "deleted"
    final,      \* the result crawl_to_csv returned
    aw,         \* async: the locals of _crawl_window_async
    auth,       \* the AuthService: its token store, the time, the last call
    client,     \* the shared async client: its session and the runs using it
    sw,         \* sync: the page loop of _crawl_window, pages as item counts
    chain       \* sync: a run and its follow-up runs, windows as their dates

vars ==
    <<mode, call, pc, run, loop, win, temp_f, clock, hist, result,
      sem, task, apage, done_order, conv, output_csv, temp_ndjson, final, aw,
      auth, client, sw, chain>>

extVars == <<conv, output_csv, temp_ndjson, final, aw, auth, client, sw, chain>>

asyncVars == <<sem, task, apage, done_order>>

syncVars == <<pc, run, loop, win, temp_f, clock, hist, result>>

NoDate == 0

NoCall == [outs |-> AllFail, done |-> FALSE, res |-> Raised("-", <<>>)]

NoRun ==
    [total_days |-> 0, window_days |-> 0, max_windows_per_call |-> 0,
     max_runtime_sec |-> 0, end_date |-> 0, start_date |-> 0]

NoLoop ==
    [current_end |-> 0, current_start |-> 0, windows_processed |-> 0,
     pages_processed |-> 0, total_products |-> 0, success_details |-> 0,
     failed_details |-> 0]

NoWin ==
    [page |-> 0, products |-> 0, pages |-> 0, success_details |-> 0,
     failed_details |-> 0, start_str |-> NoDate, end_str |-> NoDate,
     items |-> <<>>, next |-> 0]

NoHist ==
    [windows |-> <<>>, requests |-> <<>>, details |-> <<>>, stop |-> "-",
     fault |-> "-", keep_temp |-> FALSE, append |-> FALSE,
     fail_on_new_columns |-> FALSE]

NoResult ==
    [success |-> FALSE, windows_processed |-> 0, pages_processed |-> 0,
     total_products |-> 0, success_details |-> 0, failed_details |-> 0,
     incomplete |-> FALSE, remaining_days |-> 0, next_anchor_end_date |-> NoDate,
     covered_days |-> 0]

\* the pages crawl_multiple_pages(start_page=1, end_page=2) crawls
\* concurrently, and the calls of a page: call 0 is the
\* list call, call i >= 1 the detail call of the page's i-th item
PageNos == {1, 2}

TaskIds == PageNos \X (0..MaxItems)

NoPayload == extract_g2b_params(<<>>)

NoTask ==
    [st |-> "none", attempt |-> 0, last_exception |-> "-", payload |-> NoPayload,
     val |-> NoResponse, trace |-> <<>>]

NoPageResult ==
    [success |-> FALSE, page_no |-> 0, items |-> <<>>, total_items |-> 0,
     success_details |-> 0, failed_details |-> 0]

NoPage == [st |-> "none", items |-> <<>>, res |-> NoPageResult]

\* what _crawl_window_async returns for a window without a first page
NoWindowResult ==
    [pages |-> 0, products |-> 0, success_details |-> 0, failed_details |-> 0]

\* _crawl_window_async has not been called.  last and last_items describe the
\* upstream (the last page that holds items, and how many); written is the
\* part of temp_f the window wrote, one entry per page; failed holds the
\* pages whose crawl failed and failures counts them; requested holds the
\* batches of pages that were crawled, in the order of their gather.
NoAw ==
    [pc |-> "idle", max_concurrent_pages |-> 0, last |-> 0, last_items |-> 0,
     failures |-> 0, page_no |-> 0, page_tasks |-> <<>>,
     total_pages |-> 0, total_products |-> 0,
     total_success_details |-> 0, total_failed_details |-> 0,
     written |-> <<>>, failed |-> {}, requested |-> <<>>, ret |-> NoWindowResult]

\* no run of a chain has started.  origin is the first run of the chain, runs
\* counts its runs, done holds the windows of the runs before the current one
\* and windows those of the current run.
NoChain ==
    [pc |-> "idle", run |-> NoRun, loop |-> NoLoop, result |-> NoResult,
     origin |-> NoRun, runs |-> 0, done |-> <<>>, windows |-> <<>>]

\* _crawl_window has not been called.  last and last_items describe the
\* upstream as for the async window, fail_at is the page whose list call
\* raises (0: none); requests holds the list requests issued.
NoSw ==
    [pc |-> "idle", page |-> 0, pages |-> 0, products |-> 0,
     last |-> 0, last_items |-> 0, fail_at |-> 0, requests |-> <<>>]

Init ==
    /\ mode = "idle"
    /\ call = NoCall
    /\ pc = "idle"
    /\ run = NoRun
    /\ loop = NoLoop
    /\ win = NoWin
    /\ temp_f = <<>>
    /\ clock = 0
    /\ hist = NoHist
    /\ result = NoResult
    /\ sem = MaxConcurrent
    /\ task = [t \in TaskIds |-> NoTask]
    /\ apage = [p \in PageNos |-> NoPage]
    /\ done_order = <<>>
    /\ conv = NoConv
    /\ output_csv = NoFile
    /\ temp_ndjson = "none"
    /\ final = NoFinal
    /\ aw = NoAw
    /\ auth = NoAuth
    /\ client = NoClient
    /\ sw = NoSw
    /\ chain = NoChain

\* ---------------------------------------------------- one retry-wrapped call
\* NaramarketAPIClient.call_list_api, decorated with retryable

CallListApi ==
    /\ mode = "idle"
    /\ \E outs \in AttemptSeqs(ListResponses) :
           call' = [outs |-> outs, done |-> TRUE, res |-> retryable(outs)]
    /\ mode' = "retry"
    /\ UNCHANGED <<extVars, syncVars, asyncVars>>

\* NaramarketAPIClient.call_detail_api, decorated with retryable
CallDetailApi ==
    /\ mode = "idle"
    /\ \E i \in 1..MaxItems :
         \E outs \in AttemptSeqs(DetailResponses(extract_g2b_params(Item(i)))) :
           call' = [outs |-> outs, done |-> TRUE, res |-> retryable(outs)]
    /\ mode' = "retry"
    /\ UNCHANGED <<extVars, syncVars, asyncVars>>

\* ------------------------------------------------ CrawlingService (sync)

\* crawl_to_csv up to the window loop: the date range, the opened log and the
\* initial locals of _crawl_windows_to_temp
CrawlToCsv ==
    /\ mode = "idle"
    /\ \E total_days \in 1..MaxTotalDays, window_days \in 1..MaxWindowDays,
          max_windows_per_call \in 0..MaxWindowsCap,
          max_runtime_sec \in RuntimeBudgets, anchor_end_date \in AnchorDates :
           LET end_date == strptime(anchor_end_date)
               start_date == end_date - (total_days - 1)
           IN  /\ run' = [total_days |-> total_days, window_days |-> window_days,
                          max_windows_per_call |-> max_windows_per_call,
                          max_runtime_sec |-> max_runtime_sec,
                          end_date |-> end_date, start_date |-> start_date]
               /\ loop' = [NoLoop EXCEPT !.current_end = end_date]
    /\ mode' = "sync"
    /\ pc' = "window_loop"
    /\ temp_f' = <<>>
    /\ temp_ndjson' = "present"
    /\ clock' = 0
    /\ UNCHANGED <<call, win, hist, result, asyncVars, conv, output_csv, final, aw, auth, client, sw, chain>>

\* time passes while a run is in progress; the clock is followed until it
\* has passed the budget of the run (the run reads it only to compare it with
\* the budget)
Tick ==
    /\ mode = "sync"
    /\ pc \in {"window_loop", "page_loop", "item_loop"}
    /\ clock <= run.max_runtime_sec
    /\ clock' = clock + 1
    /\ UNCHANGED <<extVars, mode, call, pc, run, loop, win, temp_f, hist, result, asyncVars>>

WindowStartUnclamped(current_end, window_days, start_date) ==
    current_end - (window_days - 1)

\* the start of the window beginning the walk at current_end
WindowStart(current_end, window_days, start_date) ==
    Max(current_end - (window_days - 1), start_date)

NextWindowEndSame(current_start) == current_start

\* the end of the window after the one that starts at current_start
NextWindowEnd(current_start) == current_start - 1

\* the condition of the window loop
WindowLoopCond(current_end, start_date) == current_end > start_date

RemainingDaysInclusive(current_end, start_date) ==
    Max(current_end - start_date + 1, 0)

\* remaining_days
RemainingDays(current_end, start_date) == Max(current_end - start_date, 0)

\* the completion status computed after the window loop
WindowsResult(l, r) ==
    LET covered_days ==
            IF l.current_end < r.end_date THEN r.end_date - l.current_end ELSE 0
        remaining_days == RemainingDays(l.current_end, r.start_date)
        incomplete == remaining_days > 0
    IN  [success |-> TRUE,
         windows_processed |-> l.windows_processed,
         pages_processed |-> l.pages_processed,
         total_products |-> l.total_products,
         success_details |-> l.success_details,
         failed_details |-> l.failed_details,
         incomplete |-> incomplete,
         remaining_days |-> remaining_days,
         next_anchor_end_date |->
             IF incomplete THEN strftime(l.current_end) ELSE NoDate,
         covered_days |-> covered_days]

\* the window loop is left (its condition fails, or one of the two breaks):
\* _crawl_windows_to_temp returns its result
LeaveWindowLoop(why) ==
    /\ result' = WindowsResult(loop, run)
    /\ hist' = [hist EXCEPT !.stop = why]
    /\ pc' = "windowed"
    /\ UNCHANGED <<extVars, mode, call, run, loop, win, temp_f, clock, asyncVars>>

WindowCapNever(max_windows_per_call, windows_processed) == FALSE

\* the window-count break
WindowCapReached(max_windows_per_call, windows_processed) ==
    max_windows_per_call > 0 /\ windows_processed >= max_windows_per_call

RuntimeExceededNever(elapsed, max_runtime_sec) == FALSE

\* the runtime break
RuntimeExceeded(elapsed, max_runtime_sec) == elapsed > max_runtime_sec

\* one evaluation of the head of the window loop
WindowLoop ==
    /\ mode = "sync"
    /\ pc = "window_loop"
    /\ IF ~WindowLoopCond(loop.current_end, run.start_date)
       THEN LeaveWindowLoop("range")
       ELSE IF RuntimeExceeded(clock, run.max_runtime_sec)
       THEN LeaveWindowLoop("runtime")
       ELSE IF WindowCapReached(run.max_windows_per_call, loop.windows_processed)
       THEN LeaveWindowLoop("cap")
       ELSE LET current_start ==
                    WindowStart(loop.current_end, run.window_days, run.start_date)
            IN  /\ loop' = [loop EXCEPT !.current_start = current_start]
                /\ win' = [NoWin EXCEPT !.page = 1,
                                        !.start_str = strftime(current_start),
                                        !.end_str = strftime(loop.current_end)]
                /\ hist' = [hist EXCEPT !.windows =
                               Append(@, [start |-> current_start,
                                          end |-> loop.current_end])]
                /\ pc' = "page_loop"
                /\ UNCHANGED <<extVars, mode, call, run, temp_f, clock, result, asyncVars>>

\* the list responses the upstream can give to a request for page pageNo
\* while the log holds logged records
UpstreamPages(pageNo, logged) ==
    {r \in ListResponses :
        Len(r.items) > 0 => logged + Len(r.items) <= MaxLog}

\* the params of the list request of _crawl_window
ListParams(pageNo, start_str, end_str) ==
    [pageNo |-> pageNo, numOfRows |-> NUM_ROWS,
     inqryBgnDate |-> start_str, inqryEndDate |-> end_str]

\* a list request as the history keeps it: its params and whether the call
\* raised
Request(params, r) ==
    [pageNo |-> params.pageNo, numOfRows |-> params.numOfRows,
     inqryBgnDate |-> params.inqryBgnDate, inqryEndDate |-> params.inqryEndDate,
     raised |-> r.raised, items |-> Len(NormalizeItems(r.val))]

\* a detail call as the history keeps it: whether it raised and how many
\* entries the resultList of its response had
Detail(r) == [raised |-> r.raised, entries |-> Len(r.val.resultList)]

\* _crawl_window returns: the window loop adds its counts and moves to the
\* next window
ReturnWindow(requests) ==
    /\ loop' = [loop EXCEPT
                   !.windows_processed = @ + 1,
                   !.pages_processed = @ + win.pages,
                   !.total_products = @ + win.products,
                   !.success_details = @ + win.success_details,
                   !.failed_details = @ + win.failed_details,
                   !.current_end = NextWindowEnd(loop.current_start)]
    /\ hist' = [hist EXCEPT !.requests = requests]
    /\ pc' = "window_loop"
    /\ UNCHANGED <<extVars, mode, call, run, win, temp_f, clock, result, asyncVars>>

PageLoopContinuesAlways(page) == TRUE

\* while page <= DEFAULT_MAX_PAGES
PageLoopContinues(page) == page <= DEFAULT_MAX_PAGES

ListBreaksOnEmptyPageOnly(r) == ~r.raised /\ NormalizeItems(r.val) = <<>>

\* whether _crawl_window leaves its page loop on this list call result
ListBreaks(r) == r.raised \/ NormalizeItems(r.val) = <<>>

CountProductsByPage(products, items) == products + 1

\* products += len(items)
CountProducts(products, items) == products + Len(items)

\* one evaluation of the head of the page loop: the list call of the page
CrawlWindowPage ==
    /\ mode = "sync"
    /\ pc = "page_loop"
    /\ IF ~PageLoopContinues(win.page)
       THEN ReturnWindow(hist.requests)
       ELSE \E outs \in AttemptSeqs(UpstreamPages(win.page, Len(temp_f))) :
              LET r == retryable(outs)
                  items == NormalizeItems(r.val)
                  requests ==
                      Append(hist.requests,
                             Request(ListParams(win.page, win.start_str, win.end_str), r))
              IN  IF ListBreaks(r)
                  THEN ReturnWindow(requests)
                  ELSE /\ win' = [win EXCEPT !.pages = @ + 1,
                                             !.products = CountProducts(@, items),
                                             !.items = items,
                                             !.next = 1]
                       /\ hist' = [hist EXCEPT !.requests = requests]
                       /\ pc' = "item_loop"
                       /\ UNCHANGED <<extVars, mode, call, run, loop, temp_f, clock, result,
                                      asyncVars>>

DetailSucceededAlways(r) == TRUE

DetailSucceededNonEmpty(r) == ~r.raised /\ ParseAttributes(r.val) # NoAttributes

\* whether the item's detail fetch counts as a success
DetailSucceeded(r) == ~r.raised

\* the attributes attached to the item
DetailAttributes(r) == IF r.raised THEN NoAttributes ELSE ParseAttributes(r.val)

\* the record _crawl_window writes for an item and its detail call result
SyncRecord(item, r, start_str, end_str) ==
    Merge(item,
          [attributes |-> DetailAttributes(r),
           window_start |-> start_str,
           window_end |-> end_str,
           detail_success |-> DetailSucceeded(r)])

\* one iteration of the item loop: the detail call of the item and the write
\* of its record; after the last item the page number advances
CrawlWindowItem ==
    /\ mode = "sync"
    /\ pc = "item_loop"
    /\ LET item == win.items[win.next]
           payload == extract_g2b_params(item)
       IN  \E outs \in AttemptSeqs(DetailResponses(payload)) :
              LET r == retryable(outs)
                  last == win.next = Len(win.items)
              IN  /\ temp_f' = Append(temp_f,
                                      SyncRecord(item, r, win.start_str, win.end_str))
                  /\ win' = [win EXCEPT
                                !.success_details = IF DetailSucceeded(r) THEN @ + 1 ELSE @,
                                !.failed_details = IF DetailSucceeded(r) THEN @ ELSE @ + 1,
                                !.next = IF last THEN 0 ELSE @ + 1,
                                !.items = IF last THEN <<>> ELSE @,
                                !.page = IF last THEN @ + 1 ELSE @]
                  /\ hist' = [hist EXCEPT !.details = Append(@, Detail(r))]
                  /\ pc' = IF last THEN "page_loop" ELSE "item_loop"
    /\ UNCHANGED <<extVars, mode, call, run, loop, clock, result, asyncVars>>

\* --------------------------------------------- AsyncNaramarketClient (async)

\* a call that _retry_request has just started: its first attempt is about
\* to enter the semaphore
StartedTask(payload) ==
    [st |-> "wait", attempt |-> 0, last_exception |-> "-", payload |-> payload,
     val |-> NoResponse, trace |-> <<>>]

\* crawl_multiple_pages: the page crawls start together, each with its list
\* call
CrawlMultiplePages ==
    /\ mode = "idle"
    /\ mode' = "async"
    /\ apage' = [p \in PageNos |-> [NoPage EXCEPT !.st = "list"]]
    /\ task' = [t \in TaskIds |->
                  IF t[2] = 0 THEN StartedTask(NoPayload) ELSE NoTask]
    /\ UNCHANGED <<extVars, call, syncVars, sem, done_order>>

\* async with self.semaphore: a request is issued only with a permit
PermitAlways(permits) == TRUE

Permit(permits) == permits > 0

\* the HTTP requests in flight
InFlight == {t \in TaskIds : task[t].st = "inflight"}

AcquireNone(permits) == permits

\* entering "async with self.semaphore" takes a permit
Acquire(permits) == permits - 1

ReleaseOnReturn(permits, raised) == IF raised THEN permits ELSE permits + 1

\* leaving "async with self.semaphore" gives the permit back, whether the
\* request returned or raised
Release(permits, raised) == permits + 1

\* an attempt of call t enters the semaphore and issues its HTTP request
AsyncAcquire(t) ==
    /\ mode = "async"
    /\ task[t].st = "wait"
    /\ Permit(sem)
    /\ sem' = Acquire(sem)
    /\ task' = [task EXCEPT ![t].st = "inflight",
                            ![t].trace = Append(@, CallEv(task[t].attempt))]
    /\ UNCHANGED <<extVars, mode, call, syncVars, apage, done_order>>

\* the call has completed: it returned a response or raised
Completed(tk) == tk.st \in {"returned", "raised"}

\* the entry of asyncio.gather(..., return_exceptions=True) for a call
Outcome(tk) ==
    IF tk.st = "raised"
    THEN Raised(tk.last_exception, tk.trace)
    ELSE Returned(tk.val, tk.trace)

\* the detail calls of page p in the order they completed
CompletedOf(order, p) == SelectSeq(order, LAMBDA t : t[1] = p)

GatherInCompletionOrder(tk, order, p, n) ==
    [i \in 1..n |-> Outcome(tk[CompletedOf(order, p)[i]])]

\* call_multiple_detail_apis: gather returns the outcomes in the order of the
\* payloads, whatever the order of completion
GatherDetails(tk, order, p, n) == [i \in 1..n |-> Outcome(tk[<<p, i>>])]

\* the enhanced item crawl_page_with_details builds from an item and the
\* outcome of its detail call
AsyncRecord(item, r) ==
    IF r.raised
    THEN Merge(item, [attributes |-> NoAttributes, detail_success |-> FALSE,
                      detail_error |-> r.exc])
    ELSE Merge(item, [attributes |-> ParseAttributes(r.val),
                      detail_success |-> TRUE])

\* the result of crawl_page_with_details for a page with items
PageSuccess(p, items, detail_responses) ==
    LET n == Min(Len(items), Len(detail_responses))
        enhanced_items == [i \in 1..n |-> AsyncRecord(items[i], detail_responses[i])]
        failed == {i \in 1..n : detail_responses[i].raised}
    IN  [success |-> TRUE, page_no |-> p, items |-> enhanced_items,
         total_items |-> n,
         success_details |-> n - Cardinality(failed),
         failed_details |-> Cardinality(failed)]

\* the result of the except branch of crawl_page_with_details
PageFailure(p) == [NoPageResult EXCEPT !.page_no = p]

\* crawl_page_with_details of page p goes on after its call t completed, the
\* calls being tk and the completion order being order
PageAfter(pg, t, tk, order) ==
    LET p == t[1]
    IN  IF t[2] = 0
        THEN \* the list call
             IF tk[t].st = "raised"
             THEN [pg EXCEPT !.st = "done", !.res = PageFailure(p)]
             ELSE LET items == NormalizeItems(tk[t].val)
                  IN  IF items = <<>>
                      THEN [pg EXCEPT !.st = "done",
                                      !.res = PageSuccess(p, <<>>, <<>>)]
                      ELSE [pg EXCEPT !.st = "details", !.items = items]
        ELSE \* a detail call: gather returns when all of them have completed
             IF \A i \in 1..Len(pg.items) : Completed(tk[<<p, i>>])
             THEN [pg EXCEPT !.st = "done",
                             !.res = PageSuccess(p, pg.items,
                                         GatherDetails(tk, order, p, Len(pg.items)))]
             ELSE pg

\* the detail calls call_multiple_detail_apis starts when the list call t of
\* a page returned items
WithDetailCalls(t, tk) ==
    LET p == t[1]
        items == NormalizeItems(tk[t].val)
    IN  IF t[2] = 0 /\ tk[t].st = "returned"
        THEN [u \in TaskIds |->
                 IF u[1] = p /\ u[2] >= 1 /\ u[2] <= Len(items)
                 THEN StartedTask(extract_g2b_params(items[u[2]]))
                 ELSE tk[u]]
        ELSE tk

\* what the upstream can answer to the request of call t; its data ends on
\* the first of the pages, the later pages are empty
AsyncAnswers(t) ==
    IF t[2] = 0
    THEN {r \in ListResponses : Len(r.items) > 0 => t[1] = 1}
    ELSE DetailResponses(task[t].payload)

\* call t is over (returned or raised): its page goes on
FinishCall(t, tk) ==
    LET order == IF t[2] = 0 THEN done_order ELSE Append(done_order, t)
        pg == PageAfter(apage[t[1]], t, tk, order)
    IN  /\ done_order' = order
        /\ apage' = [apage EXCEPT ![t[1]] = pg]
        /\ task' = WithDetailCalls(t, tk)

\* the request of call t returns a response: the permit is released and the
\* call returns it
AsyncReturn(t) ==
    /\ mode = "async"
    /\ task[t].st = "inflight"
    /\ sem' = Release(sem, FALSE)
    /\ \E answer \in AsyncAnswers(t) :
           FinishCall(t, [task EXCEPT ![t].st = "returned", ![t].val = answer])
    /\ UNCHANGED <<extVars, mode, call, syncVars>>

\* the attempts of call tk that have failed
FailedAttempts(tk) == tk.attempt + (IF tk.st \in {"sleep", "raised"} THEN 1 ELSE 0)

\* the requests of the run that have failed
FailedRequests ==
    Cardinality({tn \in TaskIds \X (1..MAX_RETRIES) : tn[2] <= FailedAttempts(task[tn[1]])})

\* whether _retry_request sleeps and tries again after a failed attempt
RetriesAfter(attempt) == attempt < MAX_RETRIES - 1

\* the request of call t fails: the permit is released; _retry_request sleeps
\* before the next attempt, or raises after the last one
AsyncFail(t) ==
    /\ mode = "async"
    /\ task[t].st = "inflight"
    /\ FailedRequests < MaxFailures
    /\ sem' = Release(sem, TRUE)
    /\ LET e == Exc[task[t].attempt + 1]
       IN  IF RetriesAfter(task[t].attempt)
           THEN /\ task' = [task EXCEPT
                               ![t].st = "sleep",
                               ![t].last_exception = e,
                               ![t].trace = Append(@, SleepEv(WaitTime(task[t].attempt)))]
                /\ UNCHANGED <<extVars, apage, done_order>>
           ELSE FinishCall(t, [task EXCEPT ![t].st = "raised",
                                           ![t].last_exception = e])
    /\ UNCHANGED <<extVars, mode, call, syncVars>>

\* the backoff sleep of call t is over: the next attempt starts
AsyncWake(t) ==
    /\ mode = "async"
    /\ task[t].st = "sleep"
    /\ task' = [task EXCEPT ![t].st = "wait", ![t].attempt = @ + 1]
    /\ UNCHANGED <<extVars, mode, call, syncVars, sem, apage, done_order>>

\* ------------------------------ AsyncCrawlingService._crawl_window_async

\* the limit on the pages of a window the async crawler asks for
ASYNC_MAX_PAGES == 20

\* max_estimated_pages
MaxEstimatedPages == Min(DEFAULT_MAX_PAGES, ASYNC_MAX_PAGES)

\* the number of items the upstream holds for page p: the pages before the
\* last are full
UpstreamItems(p, last, last_items) ==
    IF p < last THEN NUM_ROWS ELSE IF p = last THEN last_items ELSE 0

\* the result of crawl_page_with_details for a page of n items, taken as a
\* whole (the calls of a page are followed above); the items are numbered
PageResult(p, n) ==
    [success |-> TRUE, page_no |-> p, items |-> [i \in 1..n |-> i],
     total_items |-> n, success_details |-> n, failed_details |-> 0]

\* the pages of a batch whose crawl may fail
FailChoices(page_tasks, a) ==
    {F \in SUBSET Range(page_tasks) : Cardinality(F) + a.failures <= MaxPageFailures}

\* asyncio.gather(*page_tasks): the results, in the order of the tasks; the
\* crawls of the pages F fail
Gather(page_tasks, F, a) ==
    [i \in 1..Len(page_tasks) |->
        IF page_tasks[i] \in F
        THEN PageFailure(page_tasks[i])
        ELSE PageResult(page_tasks[i], UpstreamItems(page_tasks[i], a.last, a.last_items))]

\* the items of a page are written and its counts are added
WritePage(a, page_result) ==
    [a EXCEPT !.written = Append(@, [page_no |-> page_result.page_no,
                                     records |-> Len(page_result.items)]),
              !.total_pages = @ + 1,
              !.total_products = @ + page_result.total_items,
              !.total_success_details = @ + page_result.success_details,
              !.total_failed_details = @ + page_result.failed_details]

\* the loop over the results of a batch: it is left at the first result that
\* failed or holds no items
RECURSIVE ProcessPageResults(_, _)
ProcessPageResults(page_results, a) ==
    IF page_results = <<>> THEN a
    ELSE IF ~Head(page_results).success \/ Head(page_results).items = <<>>
    THEN a
    ELSE ProcessPageResults(Tail(page_results), WritePage(a, Head(page_results)))

\* a batch is gathered and processed, the crawls of the pages F failing
ProcessBatch(a, F) ==
    [ProcessPageResults(Gather(a.page_tasks, F, a), a)
        EXCEPT !.failed = @ \cup F,
               !.failures = @ + Cardinality(F),
               !.requested = Append(@, a.page_tasks),
               !.page_tasks = <<>>]

\* the result of _crawl_window_async
WindowReturn(a) ==
    [pages |-> a.total_pages, products |-> a.total_products,
     success_details |-> a.total_success_details,
     failed_details |-> a.total_failed_details]

\* _crawl_window_async is called for a window
CrawlWindowAsync ==
    /\ mode = "idle"
    /\ \E max_concurrent_pages \in 1..MaxConcurrentPages,
          last \in 0..MaxDataPages, last_items \in {1, NUM_ROWS} :
           /\ last = 0 => last_items = 1
           /\ aw' = [NoAw EXCEPT !.pc = "first",
                                 !.max_concurrent_pages = max_concurrent_pages,
                                 !.last = last, !.last_items = last_items]
    /\ mode' = "window"
    /\ UNCHANGED <<call, syncVars, asyncVars, conv, output_csv, temp_ndjson, final,
                   auth, client, sw, chain>>

\* the first page: the window returns without it, or after it when it is not
\* full; a full first page starts the loop over the further pages
AsyncFirstPage ==
    /\ mode = "window"
    /\ aw.pc = "first"
    /\ \E F \in FailChoices(<<1>>, aw) :
           LET first_page_result == Gather(<<1>>, F, aw)[1]
               a == [WritePage(aw, first_page_result) EXCEPT !.total_pages = 1,
                                                             !.requested = << <<1>> >>]
           IN  aw' = IF ~first_page_result.success \/ first_page_result.items = <<>>
                     THEN [aw EXCEPT !.pc = "returned", !.failed = F,
                                     !.failures = Cardinality(F),
                                     !.requested = << <<1>> >>]
                     ELSE IF Len(first_page_result.items) >= NUM_ROWS
                     THEN [a EXCEPT !.pc = "pages", !.page_no = 2]
                     ELSE [a EXCEPT !.pc = "returned", !.ret = WindowReturn(a)]
    /\ UNCHANGED <<mode, call, syncVars, asyncVars, conv, output_csv, temp_ndjson,
                   final, auth, client, sw, chain>>

\* one iteration of the loop over the page numbers: a batch that holds
\* max_concurrent_pages tasks is gathered and processed, then the task of
\* page_no is added
AsyncPageLoop ==
    /\ mode = "window"
    /\ aw.pc = "pages"
    /\ aw.page_no <= MaxEstimatedPages
    /\ IF Len(aw.page_tasks) >= aw.max_concurrent_pages
       THEN \E F \in FailChoices(aw.page_tasks, aw) :
               aw' = [ProcessBatch(aw, F) EXCEPT !.page_tasks = <<aw.page_no>>,
                                                 !.page_no = @ + 1]
       ELSE aw' = [aw EXCEPT !.page_tasks = Append(@, aw.page_no),
                             !.page_no = @ + 1]
    /\ UNCHANGED <<mode, call, syncVars, asyncVars, conv, output_csv, temp_ndjson,
                   final, auth, client, sw, chain>>

\* after the loop: the remaining tasks are gathered and processed, and the
\* window returns
AsyncRemainingPages ==
    /\ mode = "window"
    /\ aw.pc = "pages"
    /\ aw.page_no > MaxEstimatedPages
    /\ \E F \in FailChoices(aw.page_tasks, aw) :
           LET a == ProcessBatch(aw, F)
           IN  aw' = [a EXCEPT !.pc = "returned", !.ret = WindowReturn(a)]
    /\ UNCHANGED <<mode, call, syncVars, asyncVars, conv, output_csv, temp_ndjson,
                   final, auth, client, sw, chain>>

NextWindowAsync ==
    CrawlWindowAsync \/ AsyncFirstPage \/ AsyncPageLoop \/ AsyncRemainingPages

\* ------------------------- the page loop of _crawl_window, up to its limit

\* the numbers of pages the upstream may hold: few, or about DEFAULT_MAX_PAGES
UpstreamLasts == (0..2) \cup ((DEFAULT_MAX_PAGES - 1)..MaxUpstreamPages)

\* the pages whose list call may raise (0: none does)
FailAts == {0, 1, 2, DEFAULT_MAX_PAGES}

\* _crawl_window is called for a window; the item loop of a page is followed
\* above, here a page is carried as the number of its items
CrawlWindowPages ==
    /\ mode = "idle"
    /\ \E last \in UpstreamLasts, last_items \in {1, NUM_ROWS}, fail_at \in FailAts :
           /\ last = 0 => last_items = 1
           /\ sw' = [NoSw EXCEPT !.pc = "page_loop", !.page = 1, !.last = last,
                                 !.last_items = last_items, !.fail_at = fail_at]
    /\ mode' = "pages"
    /\ UNCHANGED <<call, syncVars, asyncVars, conv, output_csv, temp_ndjson, final, aw,
                   auth, client, chain>>

\* one evaluation of the head of the page loop and, within the limit, the
\* list call of the page and the processing of its items
WindowPageStep ==
    /\ mode = "pages"
    /\ sw.pc = "page_loop"
    /\ IF ~PageLoopContinues(sw.page)
       THEN sw' = [sw EXCEPT !.pc = "returned"]
       ELSE LET raised == sw.page = sw.fail_at
                n == IF raised THEN 0
                     ELSE UpstreamItems(sw.page, sw.last, sw.last_items)
                params == ListParams(sw.page, NoDate, NoDate)
                requests == Append(sw.requests,
                                   [pageNo |-> params.pageNo,
                                    numOfRows |-> params.numOfRows,
                                    raised |-> raised, items |-> n])
            IN  IF raised \/ n = 0
                THEN sw' = [sw EXCEPT !.pc = "returned", !.requests = requests]
                ELSE sw' = [sw EXCEPT !.pages = @ + 1, !.products = @ + n,
                                      !.page = @ + 1, !.requests = requests]
    /\ UNCHANGED <<mode, call, syncVars, asyncVars, conv, output_csv, temp_ndjson, final,
                   aw, auth, client, chain>>

NextPages == CrawlWindowPages \/ WindowPageStep

\* ------------------------------------- a run and its follow-up runs

\* crawl_to_csv determines the date range of a run from its arguments
DateRange(anchor_end_date, total_days, window_days, max_windows_per_call, max_runtime_sec) ==
    LET end_date == strptime(anchor_end_date)
    IN  [total_days |-> total_days, window_days |-> window_days,
         max_windows_per_call |-> max_windows_per_call,
         max_runtime_sec |-> max_runtime_sec,
         end_date |-> end_date, start_date |-> end_date - (total_days - 1)]

\* crawl_to_csv is called; the crawl of a window is followed above, here a
\* window is carried as its two dates
ChainStart ==
    /\ mode = "idle"
    /\ \E total_days \in 1..MaxTotalDays, window_days \in 1..MaxWindowDays,
          max_windows_per_call \in 0..MaxWindowsCap,
          max_runtime_sec \in RuntimeBudgets, anchor_end_date \in AnchorDates :
           LET r == DateRange(anchor_end_date, total_days, window_days,
                              max_windows_per_call, max_runtime_sec)
           IN  chain' = [NoChain EXCEPT !.pc = "window_loop", !.run = r, !.origin = r,
                                        !.runs = 1,
                                        !.loop.current_end = r.end_date]
    /\ mode' = "chain"
    /\ UNCHANGED <<call, syncVars, asyncVars, conv, output_csv, temp_ndjson, final, aw,
                   auth, client, sw>>

\* one evaluation of the head of the window loop, elapsed being the time
\* since the start of the run, and the processing of the window
ChainWindow ==
    /\ mode = "chain"
    /\ chain.pc = "window_loop"
    /\ \E elapsed \in 0..1 :
           LET l == chain.loop
               r == chain.run
           IN  IF \/ ~WindowLoopCond(l.current_end, r.start_date)
                  \/ RuntimeExceeded(elapsed, r.max_runtime_sec)
                  \/ WindowCapReached(r.max_windows_per_call, l.windows_processed)
               THEN chain' = [chain EXCEPT !.pc = "returned",
                                           !.result = WindowsResult(l, r)]
               ELSE LET current_start ==
                            WindowStart(l.current_end, r.window_days, r.start_date)
                    IN  chain' = [chain EXCEPT
                                     !.loop.current_start = current_start,
                                     !.loop.windows_processed = @ + 1,
                                     !.loop.current_end = NextWindowEnd(current_start),
                                     !.windows = Append(@, [start |-> current_start,
                                                            end |-> l.current_end])]
    /\ UNCHANGED <<mode, call, syncVars, asyncVars, conv, output_csv, temp_ndjson, final,
                   aw, auth, client, sw>>

\* the follow-up run of a run that reported incomplete: crawl_to_csv is called
\* with the reported next_anchor_end_date, total_days = remaining_days + 1 and
\* the same window_days
ChainContinue ==
    /\ mode = "chain"
    /\ chain.pc = "returned"
    /\ chain.result.incomplete
    /\ chain.runs < MaxChainRuns
    /\ \E max_windows_per_call \in 0..MaxWindowsCap, max_runtime_sec \in RuntimeBudgets :
           LET r == DateRange(chain.result.next_anchor_end_date,
                              chain.result.remaining_days + 1, chain.run.window_days,
                              max_windows_per_call, max_runtime_sec)
           IN  chain' = [chain EXCEPT !.pc = "window_loop", !.run = r,
                                      !.loop = [NoLoop EXCEPT !.current_end = r.end_date],
                                      !.result = NoResult,
                                      !.runs = @ + 1,
                                      !.done = @ \o chain.windows,
                                      !.windows = <<>>]
    /\ UNCHANGED <<mode, call, syncVars, asyncVars, conv, output_csv, temp_ndjson, final,
                   aw, auth, client, sw>>

NextChain == ChainStart \/ ChainWindow \/ ChainContinue

\* ------------------------------------------- crawl_to_csv after the crawl

\* the keys of the records of the crawl, spelled out
Spelling ==
    [prdctIdntNo |-> <<"p", "r", "d", "c", "t", "I", "d", "n", "t", "N", "o">>,
     prdctStndrdNo |-> <<"p", "r", "d", "c", "t", "S", "t", "n", "d", "r", "d", "N", "o">>,
     mnfcturCmpnyNm |->
         <<"m", "n", "f", "c", "t", "u", "r", "C", "m", "p", "n", "y", "N", "m">>,
     attributes |-> ATTRIBUTES,
     window_start |-> WINDOW_START,
     window_end |-> WINDOW_END,
     detail_success |-> DETAIL_SUCCESS,
     spec |-> <<"s", "p", "e", "c">>,
     color |-> <<"c", "o", "l", "o", "r">>]

\* the order of the keys of a written record: the keys of the item, then the
\* keys _crawl_window adds
KeyOrder ==
    <<"prdctIdntNo", "prdctStndrdNo", "mnfcturCmpnyNm", "color", "spec",
      "attributes", "window_start", "window_end", "detail_success">>

\* the pairs of a mapping, in key order
Pairs(d) ==
    LET ks == SelectSeq(KeyOrder, LAMBDA k : k \in DOMAIN d)
    IN  [i \in 1..Len(ks) |->
            <<Spelling[ks[i]],
              IF ks[i] = "attributes"
              THEN LET as == SelectSeq(KeyOrder, LAMBDA k : k \in DOMAIN d[ks[i]])
                   IN  [j \in 1..Len(as) |-> <<Spelling[as[j]], d[ks[i]][as[j]]>>]
              ELSE d[ks[i]]>>]

\* the log file: json.dumps(record) + '\n' for each record written
LogOf(records) == [i \in 1..Len(records) |-> RecordLine(Pairs(records[i]))]

\* the arguments the conversion of a run gets: explode_attributes and
\* sanitize have their default values
RunOpts(append, fail_on_new_columns) ==
    [append |-> append, fail_on_new_columns |-> fail_on_new_columns,
     explode_attributes |-> FALSE, sanitize |-> TRUE]

\* the output files of two earlier runs: run i crawled the item i alone
EarlierOutputs ==
    [i \in 1..2 |->
        convert_temp_to_csv(
            LogOf(<<SyncRecord(Item(i), Returned(NoResponse, <<>>), 20231229, 20231231)>>),
            NoFile, NoHeader, RunOpts(FALSE, TRUE), FALSE).out] @@ <<>>

\* the output file a run finds: none (i = 0), or the output of the earlier
\* run i
RunExistingFile(i) == IF i = 0 THEN NoFile ELSE EarlierOutputs[i]

\* the result of the except branch of crawl_to_csv
CrawlFailure(elapsed_sec) ==
    [success |-> FALSE, error |-> "Crawling failed", output_csv |-> "out.csv",
     elapsed_sec |-> elapsed_sec]

\* the result of a run whose existing output file cannot be read
HeaderFailure ==
    [success |-> FALSE, error |-> "Failed to read existing CSV header",
     output_csv |-> "out.csv"]

CleanupAlways(csv_success, keep_temp) == IF keep_temp THEN "present" ELSE "deleted"

\* the intermediate log after crawl_to_csv: it is removed only when the
\* conversion succeeded and keep_temp is not set
Cleanup(csv_success, keep_temp) ==
    IF csv_success /\ ~keep_temp THEN "deleted" ELSE "present"

\* the entries the clean-up adds to the result
CleanupResult(keep_temp) ==
    IF keep_temp
    THEN [temp_file |-> "crawl.ndjson", temp_deleted |-> FALSE]
    ELSE [temp_deleted |-> TRUE]

\* the result of a run whose crawl and conversion succeeded
CombinedResult(windows_result, csv_result, elapsed_sec, keep_temp) ==
    Merge(Merge(Merge(windows_result, csv_result), [elapsed_sec |-> elapsed_sec]),
          CleanupResult(keep_temp))

\* crawl_to_csv returns before the crawl: the existing output file of an
\* append run cannot be read
ExistingHeaderUnreadable ==
    /\ mode = "idle"
    /\ mode' = "finished"
    /\ pc' = "header_failed"
    /\ final' = HeaderFailure
    /\ UNCHANGED <<call, run, loop, win, temp_f, clock, hist, result, asyncVars,
                   conv, output_csv, temp_ndjson, aw, auth, client, sw, chain>>

\* the arguments the end of a run reads, the output file the run finds and
\* what raises.  An argument is varied where the outcome depends on it: the
\* existing file and fail_on_new_columns in append mode, keep_temp in a run
\* that writes a new file, and the fault in such a run.
RunArgs ==
    {a \in [append : BOOLEAN, fail_on_new_columns : BOOLEAN, keep_temp : BOOLEAN,
            existing : 0..2, fault : {"none", "windowing", "converting"}] :
        /\ a.append <=> a.existing # 0
        /\ a.append => ~a.keep_temp
        /\ ~a.append => a.fail_on_new_columns
        /\ a.fault # "none" => (~a.append /\ ~a.keep_temp)}

\* crawl_to_csv after _crawl_windows_to_temp: the conversion of the log, the
\* clean-up and the result.  fault names what raises: nothing, the handling
\* of the log file when the window loop is left ("windowing"), or the files
\* of the conversion ("converting").
FinishRun ==
    /\ mode = "sync"
    /\ pc = "windowed"
    /\ \E a \in RunArgs :
           LET before == RunExistingFile(a.existing)
           IN  \E c \in {convert_temp_to_csv(LogOf(temp_f), before,
                                              ReadExistingHeader(a.append, before),
                                              RunOpts(a.append, a.fail_on_new_columns),
                                              a.fault = "converting")} :
                  LET failed == a.fault = "windowing" \/ ~c.res.success
                  IN  /\ final' = IF a.fault = "windowing" THEN CrawlFailure(clock)
                                  ELSE IF ~c.res.success THEN c.res
                                  ELSE CombinedResult(result, c.res, clock, a.keep_temp)
                      /\ output_csv' = IF a.fault = "windowing" THEN before ELSE c.out
                      /\ temp_ndjson' = Cleanup(~failed, a.keep_temp)
                      /\ hist' = [NoHist EXCEPT !.stop = hist.stop, !.fault = a.fault,
                                                !.keep_temp = a.keep_temp,
                                                !.append = a.append,
                                                !.fail_on_new_columns =
                                                    a.fail_on_new_columns]
    /\ mode' = "finished"
    /\ pc' = "done"
    /\ loop' = NoLoop
    /\ win' = NoWin
    /\ UNCHANGED <<call, run, temp_f, clock, result, conv, asyncVars, aw, auth, client, sw, chain>>

\* ----------------------------------------------- conversions of a given log
\* The records of the logs under conversion: a product with two keys, one of
\* them with brackets, and an attribute whose name has a blank; a product
\* with the bracketed key only; a product whose detail fetch failed.

NameAZ == <<"a", "(", "z", ")">>

NameA1 == <<"a", "1">>

RecA ==
    << <<NameAZ, "p">>, <<ATTRIBUTES, << <<(<<"k">>), "v">> >> >>,
       <<WINDOW_START, "20240101">>, <<WINDOW_END, "20240103">>,
       <<DETAIL_SUCCESS, TRUE>> >>

RecB ==
    << <<NameAZ, "q">>, <<NameA1, "r">>,
       <<ATTRIBUTES, << <<(<<"b", " ", "c">>), "u">> >> >>,
       <<WINDOW_START, "20240101">>, <<WINDOW_END, "20240103">>,
       <<DETAIL_SUCCESS, TRUE>> >>

RecC ==
    << <<NameA1, "s">>, <<ATTRIBUTES, <<>> >>,
       <<WINDOW_START, "20231229">>, <<WINDOW_END, "20231231">>,
       <<DETAIL_SUCCESS, FALSE>> >>

RecordLines == {RecordLine(RecA), RecordLine(RecB), RecordLine(RecC)}

LogLines == RecordLines \cup {GarbageLine, BlankLine}

\* the logs of at most MaxLines lines
Logs == UNION {[1..n -> LogLines] : n \in 0..MaxLines}

\* the output file a conversion may find: none, or the file an earlier
\* conversion of the one record line wrote with the arguments opts
NoExistingFile == [some |-> FALSE, line |-> BlankLine, opts |-> NoOpts]

ExistingFileChoices ==
    {NoExistingFile}
    \cup {[some |-> TRUE, line |-> l, opts |-> o] :
             l \in RecordLines,
             o \in {c \in ConvertOpts : ~c.append /\ c.fail_on_new_columns}}

ExistingFile(choice) ==
    IF choice.some
    THEN convert_temp_to_csv(<<choice.line>>, NoFile, NoHeader, choice.opts, FALSE).out
    ELSE NoFile

\* a log is converted, and converted once more with the same arguments but
\* for append: the existing header is read as crawl_to_csv reads it, then
\* _convert_temp_to_csv runs
Convert ==
    /\ mode \in {"idle", "convert"}
    /\ conv.n < 2
    /\ \E o \in {c \in ConvertOpts :
                   conv.n = 0 \/ [c EXCEPT !.append = conv.opts.append] = conv.opts} :
         \E log \in (IF conv.n = 0 THEN Logs ELSE {conv.log}),
            choice \in (IF conv.n = 0 THEN ExistingFileChoices ELSE {NoExistingFile}) :
           LET before == IF conv.n = 0 THEN ExistingFile(choice) ELSE output_csv
               existing_header == ReadExistingHeader(o.append, before)
               c == convert_temp_to_csv(log, before, existing_header, o, FALSE)
           IN  /\ conv' = [n |-> conv.n + 1, log |-> log, opts |-> o,
                           before |-> before, res |-> c.res, header |-> c.header,
                           prev |-> [opts |-> conv.opts, res |-> conv.res,
                                     header |-> conv.header]]
               /\ output_csv' = c.out
    /\ mode' = "convert"
    /\ UNCHANGED <<call, syncVars, asyncVars, temp_ndjson, final, aw, auth, client, sw, chain>>

\* ----------------------------------------------- calls of the AuthService

\* the call that becomes the previous call
AsPrev(last) == [op |-> last.op, token |-> last.token, ok |-> last.ret.ok]

CreateAccessToken ==
    /\ mode \in {"idle", "auth"}
    /\ Cardinality(DOMAIN auth.active_tokens) < MaxTokens
    /\ \E sub \in AuthSubjects, expires_delta \in 0..MaxExpiresDelta :
           LET c == create_access_token(auth.active_tokens, [sub |-> sub],
                                        expires_delta, auth.now)
           IN  auth' = [auth EXCEPT
                           !.active_tokens = c.active_tokens,
                           !.last = [op |-> "create", token |-> c.ret,
                                     ret |-> [ok |-> TRUE, payload |-> c.ret.jwt],
                                     now |-> auth.now,
                                     before |-> auth.active_tokens,
                                     prev |-> AsPrev(auth.last)]]
    /\ mode' = "auth"
    /\ UNCHANGED <<call, syncVars, asyncVars, conv, output_csv, temp_ndjson, final,
                   aw, client, sw, chain>>

VerifyToken ==
    /\ mode \in {"idle", "auth"}
    /\ \E token \in AllTokens(auth.now) :
           LET v == verify_token(auth.active_tokens, token, auth.now)
           IN  auth' = [auth EXCEPT
                           !.active_tokens = v.active_tokens,
                           !.last = [op |-> "verify", token |-> token, ret |-> v.ret,
                                     now |-> auth.now,
                                     before |-> auth.active_tokens,
                                     prev |-> AsPrev(auth.last)]]
    /\ mode' = "auth"
    /\ UNCHANGED <<call, syncVars, asyncVars, conv, output_csv, temp_ndjson, final,
                   aw, client, sw, chain>>

RevokeToken ==
    /\ mode \in {"idle", "auth"}
    /\ \E token \in AllTokens(auth.now) :
           LET r == revoke_token(auth.active_tokens, token)
           IN  auth' = [auth EXCEPT
                           !.active_tokens = r.active_tokens,
                           !.last = [op |-> "revoke", token |-> token,
                                     ret |-> [ok |-> r.ret, payload |-> NoClaims],
                                     now |-> auth.now,
                                     before |-> auth.active_tokens,
                                     prev |-> AsPrev(auth.last)]]
    /\ mode' = "auth"
    /\ UNCHANGED <<call, syncVars, asyncVars, conv, output_csv, temp_ndjson, final,
                   aw, client, sw, chain>>

\* a second passes
AuthTick ==
    /\ mode \in {"idle", "auth"}
    /\ auth.now < MaxAuthTime
    /\ auth' = [auth EXCEPT !.now = @ + 1]
    /\ mode' = "auth"
    /\ UNCHANGED <<call, syncVars, asyncVars, conv, output_csv, temp_ndjson, final,
                   aw, client, sw, chain>>

NextAuth == CreateAccessToken \/ VerifyToken \/ RevokeToken \/ AuthTick

\* ------------------------------------------- runs on the global async client

\* run r enters "async with async_client": __aenter__ creates a session and
\* assigns it to self.session
ClientEnter(r) ==
    /\ mode \in {"idle", "client"}
    /\ client.run[r].pc = "idle"
    /\ LET fresh == client.opened + 1
       IN  client' = [client EXCEPT !.session = aenter(@, fresh),
                                    !.opened = fresh,
                                    !.run[r].pc = "inside",
                                    !.run[r].own = fresh]
    /\ mode' = "client"
    /\ UNCHANGED <<call, syncVars, asyncVars, conv, output_csv, temp_ndjson, final, aw,
                   auth, sw, chain>>

\* run r, inside its block, issues a request: _call_list_api_impl or
\* _call_detail_api_impl reads self.session
ClientRequest(r) ==
    /\ mode = "client"
    /\ client.run[r].pc = "inside"
    /\ Len(client.run[r].requests) < MaxRunRequests
    /\ client' = [client EXCEPT !.run[r].requests =
                      Append(@, RequestOutcome(client.session, client.run[r].own))]
    /\ UNCHANGED <<mode, call, syncVars, asyncVars, conv, output_csv, temp_ndjson, final,
                   aw, auth, sw, chain>>

\* run r leaves its block: __aexit__ closes self.session, if any, and sets
\* it to None
ClientExit(r) ==
    /\ mode = "client"
    /\ client.run[r].pc = "inside"
    /\ client' = [client EXCEPT
                     !.closed = IF client.session = None THEN @
                                ELSE [@ EXCEPT ![client.session] = @ + 1],
                     !.session = None,
                     !.run[r].pc = "left"]
    /\ UNCHANGED <<mode, call, syncVars, asyncVars, conv, output_csv, temp_ndjson, final,
                   aw, auth, sw, chain>>

NextClient == \E r \in Runs : ClientEnter(r) \/ ClientRequest(r) \/ ClientExit(r)

NextAsync ==
    \/ CrawlMultiplePages
    \/ \E t \in TaskIds : AsyncAcquire(t)
    \/ \E t \in TaskIds : AsyncReturn(t)
    \/ \E t \in TaskIds : AsyncFail(t)
    \/ \E t \in TaskIds : AsyncWake(t)

NextRetry == CallListApi \/ CallDetailApi

NextSync ==
    \/ CrawlToCsv
    \/ ExistingHeaderUnreadable
    \/ Tick
    \/ WindowLoop
    \/ CrawlWindowPage
    \/ CrawlWindowItem
    \/ FinishRun

Next ==
    NextRetry \/ NextSync \/ NextAsync \/ NextWindowAsync \/ Convert \/ NextAuth
    \/ NextClient \/ NextPages \/ NextChain

Spec == Init /\ [][Next]_vars

SpecSync == Init /\ [][NextSync]_vars

\* a run goes on: the head of the window loop is evaluated, and a window
\* crawl goes on to its end (the list and detail calls return or raise)
SyncFairness ==
    /\ WF_vars(WindowLoop)
    /\ WF_vars(CrawlWindowPage)
    /\ WF_vars(CrawlWindowItem)

SpecSyncFair == Init /\ [][NextSync]_vars /\ SyncFairness

SpecAsync == Init /\ [][NextAsync]_vars

SpecRetry == Init /\ [][NextRetry \/ NextAsync]_vars

SpecCrawl == Init /\ [][NextSync \/ NextAsync]_vars

\* the event loop runs every task that is ready: a task that can enter the
\* semaphore does, a backoff sleep ends, and (the premise of the claim on
\* completion) an HTTP request in flight returns or fails
AsyncFairness ==
    \A t \in TaskIds :
        /\ WF_vars(AsyncAcquire(t))
        /\ WF_vars(AsyncReturn(t) \/ AsyncFail(t))
        /\ WF_vars(AsyncWake(t))

SpecAsyncFair == Init /\ [][NextAsync]_vars /\ AsyncFairness

SpecCounts == Init /\ [][NextSync \/ NextAsync \/ NextWindowAsync]_vars

SpecConvert == Init /\ [][Convert]_vars

SpecWindowAsync == Init /\ [][NextWindowAsync]_vars

SpecAuth == Init /\ [][NextAuth]_vars

SpecClient == Init /\ [][NextClient]_vars

SpecPages == Init /\ [][NextPages]_vars

SpecChain == Init /\ [][NextChain]_vars

\* ------------------------------------------------------------------ claims

\* the run has left the window loop and _crawl_windows_to_temp has returned
Windowed == mode = "sync" /\ pc = "windowed"

Days == run.start_date .. run.end_date

\* day d lies in a crawled window
InSomeWindow(d) ==
    \E i \in 1..Len(hist.windows) :
        hist.windows[i].start <= d /\ d <= hist.windows[i].end

Uncovered == {d \in Days : ~InSomeWindow(d)}

\* C1: when the window loop ends without being stopped by the window-count
\* or the runtime budget, every day of [start_date, end_date] lies in some
\* processed window.
C1_WindowsCoverRange ==
    (Windowed /\ hist.stop = "range") => Uncovered = {}

\* C2: a run that processed max_windows_per_call (> 0) windows and has not
\* covered the whole range reports incomplete and, as next_anchor_end_date,
\* the day before the start of the last processed window.
C2_CapStopReportsIncomplete ==
    (/\ Windowed
     /\ run.max_windows_per_call > 0
     /\ loop.windows_processed = run.max_windows_per_call
     /\ Uncovered # {})
    => /\ result.incomplete
       /\ result.next_anchor_end_date =
              strftime(hist.windows[Len(hist.windows)].start - 1)

\* C3: the first window ends at end_date; every window is
\* [max(end - window_days + 1, start_date), end]; the next window ends one day
\* before the start of the previous one; hence no day lies in two windows, no
\* window starts before start_date and none spans more than window_days days.
C3_WindowsWalkBackward ==
    mode = "sync" =>
        \A i \in 1..Len(hist.windows) :
            LET w == hist.windows[i]
            IN  /\ w.start = Max(w.end - run.window_days + 1, run.start_date)
                /\ w.start >= run.start_date
                /\ w.start <= w.end
                /\ w.end - w.start + 1 <= run.window_days
                /\ i = 1 => w.end = run.end_date
                /\ i > 1 => w.end = hist.windows[i - 1].start - 1
                /\ \A j \in 1..Len(hist.windows) :
                       j # i => (hist.windows[j].end < w.start
                                 \/ w.end < hist.windows[j].start)

\* a finished run of several windows whose last window was cut at start_date
C3_Witness ==
    /\ Windowed
    /\ Len(hist.windows) >= 2
    /\ LET w == hist.windows[Len(hist.windows)]
       IN  w.start = run.start_date /\ w.end - w.start + 1 < run.window_days

\* the records written to the log so far by the page in progress
PendingItems == IF pc = "item_loop" THEN Len(win.items) - win.next + 1 ELSE 0

InWindow == pc \in {"page_loop", "item_loop"}

RECURSIVE SumItems(_)
SumItems(requests) ==
    IF requests = <<>> THEN 0 ELSE Head(requests).items + SumItems(Tail(requests))

RaisedDetails == {i \in 1..Len(hist.details) : hist.details[i].raised}

\* the pages of the async run whose crawl is over and had items
DonePages == {p \in PageNos : apage[p].st = "done" /\ apage[p].items # <<>>}

RaisedCalls(p) == {i \in 1..Len(apage[p].items) : task[<<p, i>>].st = "raised"}

\* C4 (sync): the log holds one record per item of the list pages fetched,
\* the record of an item is flagged detail_success = false with empty
\* attributes exactly when its detail call raised, and the counters add up.
C4Sync ==
    mode = "sync" =>
        /\ Len(temp_f) + PendingItems = SumItems(hist.requests)
        /\ Len(hist.details) = Len(temp_f)
        /\ \A i \in 1..Len(temp_f) :
               /\ temp_f[i]["detail_success"] = ~hist.details[i].raised
               /\ hist.details[i].raised => temp_f[i]["attributes"] = NoAttributes
        /\ loop.failed_details + (IF InWindow THEN win.failed_details ELSE 0)
              = Cardinality(RaisedDetails)
        /\ loop.success_details + (IF InWindow THEN win.success_details ELSE 0)
              = Len(temp_f) - Cardinality(RaisedDetails)
        /\ loop.total_products + (IF InWindow THEN win.products ELSE 0)
              = Len(temp_f) + PendingItems

\* C4 (async): the result of a page with n items has n records, the i-th
\* flagged false with empty attributes exactly when the i-th detail call
\* raised, and success_details + failed_details = n.
C4Async ==
    \A p \in DonePages :
        LET n == Len(apage[p].items)
            res == apage[p].res
        IN  /\ res.success
            /\ Len(res.items) = n
            /\ res.total_items = n
            /\ \A i \in 1..n :
                   /\ res.items[i]["detail_success"] = (i \notin RaisedCalls(p))
                   /\ i \in RaisedCalls(p) => res.items[i]["attributes"] = NoAttributes
            /\ res.failed_details = Cardinality(RaisedCalls(p))
            /\ res.success_details + res.failed_details = n

\* C4: for every list page with n items exactly n records are produced,
\* whatever number k of detail fetches raise: those k records have empty
\* attributes and detail_success = false, the other n - k have
\* detail_success = true, and success_details + failed_details = n.
C4_OneRecordPerItem == C4Sync /\ C4Async

\* a page of two items whose records are written, one detail call having
\* raised and the other not
C4_Witness ==
    /\ mode = "sync"
    /\ pc = "page_loop"
    /\ win.products = 2
    /\ win.success_details = 1
    /\ win.failed_details = 1
    /\ Len(temp_f) = 2

\* the detail calls that returned a response without attribute entries
EmptyDetails == {i \in 1..Len(hist.details) :
                    ~hist.details[i].raised /\ hist.details[i].entries = 0}

EmptyCalls(p) == {i \in 1..Len(apage[p].items) :
                    task[<<p, i>>].st = "returned" /\ task[<<p, i>>].val.resultList = <<>>}

\* C5 as claimed: a detail fetch that returns an empty result is a detail
\* failure: detail_success = false and it is counted in failed_details.
C5_EmptyDetailIsFailure ==
    /\ mode = "sync" =>
          /\ \A i \in EmptyDetails : temp_f[i]["detail_success"] = FALSE
          /\ loop.failed_details + (IF InWindow THEN win.failed_details ELSE 0)
                = Cardinality(RaisedDetails \cup EmptyDetails)
    /\ \A p \in DonePages :
          /\ \A i \in EmptyCalls(p) : apage[p].res.items[i]["detail_success"] = FALSE
          /\ apage[p].res.failed_details = Cardinality(RaisedCalls(p) \cup EmptyCalls(p))

\* C5 as amended: a detail fetch that returns without raising is a detail
\* success even when its result has no attribute entries: the item gets empty
\* attributes and detail_success = true and is counted in success_details;
\* failed_details counts the raised detail fetches only.
C5_EmptyDetailIsSuccess ==
    /\ mode = "sync" =>
          /\ \A i \in EmptyDetails :
                 /\ temp_f[i]["detail_success"] = TRUE
                 /\ temp_f[i]["attributes"] = NoAttributes
          /\ loop.failed_details + (IF InWindow THEN win.failed_details ELSE 0)
                = Cardinality(RaisedDetails)
          /\ loop.success_details + (IF InWindow THEN win.success_details ELSE 0)
                >= Cardinality(EmptyDetails)
    /\ \A p \in DonePages :
          /\ \A i \in EmptyCalls(p) :
                 /\ apage[p].res.items[i]["detail_success"] = TRUE
                 /\ apage[p].res.items[i]["attributes"] = NoAttributes
          /\ apage[p].res.failed_details = Cardinality(RaisedCalls(p))
          /\ apage[p].res.success_details >= Cardinality(EmptyCalls(p))

\* a written record whose detail call returned an empty result
C5_Witness ==
    /\ mode = "sync"
    /\ EmptyDetails # {}
    /\ RaisedDetails = {}
    /\ win.success_details = 1
    /\ Len(temp_f) = 1

\* the attempts and the sleeps of a trace
CallsOf(trace) == SelectSeq(trace, LAMBDA e : e.ev = "call")

SleepsOf(trace) == SelectSeq(trace, LAMBDA e : e.ev = "sleep")

\* the attempts of outs that return
Successes(outs) == {a \in 1..MAX_RETRIES : outs[a].ok}

FirstSuccess(outs) == CHOOSE a \in Successes(outs) : \A b \in Successes(outs) : a <= b

\* C6 (sync): the wrapped call makes the attempts up to the first one that
\* returns and returns its value, or makes MAX_RETRIES attempts that all
\* raise and raises the exception of the last one.
C6Sync ==
    (mode = "retry" /\ call.done) =>
        LET calls == Len(CallsOf(call.res.trace))
        IN  /\ calls <= 3
            /\ Successes(call.outs) # {} =>
                   /\ ~call.res.raised
                   /\ call.res.val = call.outs[FirstSuccess(call.outs)].val
                   /\ calls = FirstSuccess(call.outs)
            /\ Successes(call.outs) = {} =>
                   /\ call.res.raised
                   /\ call.res.exc = call.outs[3].exc
                   /\ call.res.val = NoResponse
                   /\ calls = 3

\* C6 (async): a call makes at most MAX_RETRIES attempts; when it returned,
\* its last attempt is the only one that did not fail; it raises only after
\* MAX_RETRIES failed attempts, with the exception of the last one and
\* without a value.
C6Async ==
    \A t \in TaskIds :
        LET calls == Len(CallsOf(task[t].trace))
        IN  /\ calls <= 3
            /\ task[t].st = "returned" =>
                   /\ calls = task[t].attempt + 1
                   /\ FailedAttempts(task[t]) = calls - 1
                   /\ task[t].val \in AsyncAnswers(t)
            /\ task[t].st = "raised" =>
                   /\ calls = 3
                   /\ FailedAttempts(task[t]) = 3
                   /\ task[t].last_exception = Exc[3]
                   /\ task[t].val = NoResponse
                   /\ Outcome(task[t]).raised

\* C6: a retry-wrapped client call makes at most MAX_RETRIES = 3 attempts,
\* returns the result of the first attempt that succeeds without further
\* attempts, and re-raises the last exception when all 3 attempts raise; it
\* never returns a value for a call whose every attempt failed.
C6_RetryAtMostThreeAttempts == C6Sync /\ C6Async

\* a synchronous call whose three attempts raised
C6_Witness ==
    /\ mode = "retry"
    /\ call.done
    /\ Successes(call.outs) = {}
    /\ call.res.raised
    /\ call.res.exc = "e3"

\* the sleeps of a call that has made calls attempts and is not sleeping:
\* base^0 = 1 s after the first attempt, base^1 = 0.75 s after the second, in
\* sixteenths of a second
ExpectedSleeps(calls) == SubSeq(<<16, 12>>, 1, calls - 1)

\* attempts and sleeps alternate, starting with an attempt
Alternates(trace) ==
    \A i \in 1..Len(trace) : trace[i].ev = (IF i % 2 = 1 THEN "call" ELSE "sleep")

WaitsOf(trace) == [i \in 1..Len(SleepsOf(trace)) |-> SleepsOf(trace)[i].n]

\* C7 (sync): the trace of a finished call alternates attempts and sleeps,
\* ends with an attempt, and its sleeps are base^0, base^1 in this order.
C7Sync ==
    (mode = "retry" /\ call.done) =>
        LET trace == call.res.trace
        IN  /\ Alternates(trace)
            /\ trace[Len(trace)].ev = "call"
            /\ WaitsOf(trace) = ExpectedSleeps(Len(CallsOf(trace)))
            /\ (~call.outs[1].ok /\ ~call.outs[2].ok /\ call.outs[3].ok) =>
                   /\ WaitsOf(trace) = <<16, 12>>
                   /\ ~call.res.raised
                   /\ call.res.val = call.outs[3].val

\* C7 (async): the same for the calls of the async client; the trace ends
\* with a sleep only while the call is in its backoff sleep.
C7Async ==
    \A t \in TaskIds :
        LET trace == task[t].trace
        IN  /\ Alternates(trace)
            /\ task[t].st \in {"inflight", "returned", "raised"} =>
                   /\ trace[Len(trace)].ev = "call"
                   /\ WaitsOf(trace) = ExpectedSleeps(Len(CallsOf(trace)))
            /\ task[t].st = "sleep" => trace[Len(trace)].ev = "sleep"
            /\ Len(SleepsOf(trace)) <= 2

\* C7: the retry wrapper sleeps only between attempts, for
\* RETRY_BACKOFF_BASE^attempt (attempt = 0, 1, ...): a call that fails twice
\* and then succeeds sleeps exactly twice (base^0, then base^1) and returns
\* the successful result; no sleep follows the final failed attempt.
C7_SleepsOnlyBetweenAttempts == C7Sync /\ C7Async

\* a synchronous call that failed twice, succeeded on the third attempt and
\* slept twice
C7_Witness ==
    /\ mode = "retry"
    /\ call.done
    /\ ~call.outs[1].ok /\ ~call.outs[2].ok /\ call.outs[3].ok
    /\ ~call.res.raised
    /\ Len(SleepsOf(call.res.trace)) = 2

\* C8: at every moment the number of HTTP requests in flight (list and
\* detail requests together, retried attempts included) is at most
\* max_concurrent_requests.
C8_InFlightBounded ==
    /\ Cardinality(InFlight) <= MaxConcurrent
    /\ sem = MaxConcurrent - Cardinality(InFlight)

\* every permit is taken, by a list request and a detail request (one of
\* them a retried attempt), while another request waits for a permit
C8_Witness ==
    /\ Cardinality(InFlight) = MaxConcurrent
    /\ \E t \in InFlight : t[2] = 0
    /\ \E t \in InFlight : t[2] >= 1
    /\ \E t \in InFlight : task[t].attempt >= 1
    /\ \E t \in TaskIds : task[t].st = "wait"

\* C9: in the result of a page, the i-th record is the i-th list item with
\* the outcome of the detail call whose payload was built from that item:
\* the item's own keys, and the attributes of the response to its payload (or
\* the failure of that call), in every order of completion.
C9_RecordsJoinedByPosition ==
    \A p \in DonePages :
        \A i \in 1..Len(apage[p].items) :
            LET item == apage[p].items[i]
                rec == apage[p].res.items[i]
                tk == task[<<p, i>>]
            IN  /\ \A k \in DOMAIN item : rec[k] = item[k]
                /\ tk.payload = extract_g2b_params(item)
                /\ tk.st = "raised" =>
                       /\ rec["detail_success"] = FALSE
                       /\ rec["attributes"] = NoAttributes
                       /\ rec["detail_error"] = tk.last_exception
                /\ tk.st = "returned" =>
                       /\ rec["detail_success"] = TRUE
                       /\ rec["attributes"] = ParseAttributes(tk.val)
                       /\ tk.val \in DetailResponses(extract_g2b_params(item))

\* a page of two items whose second detail call completed before the first,
\* with different outcomes
C9_Witness ==
    /\ 1 \in DonePages
    /\ Len(apage[1].items) = 2
    /\ done_order = << <<1, 2>>, <<1, 1>> >>
    /\ apage[1].res.items[1]["attributes"] # apage[1].res.items[2]["attributes"]

Last(seq) == seq[Len(seq)]

\* a list call of the window in progress has just raised
ListCallRaised ==
    /\ pc = "page_loop"
    /\ Len(hist'.requests) = Len(hist.requests) + 1
    /\ Last(hist'.requests).raised

\* no list request follows, for the same window, a list request that raised
NoPageAfterFailure ==
    \A i \in 1..Len(hist.requests) :
        hist.requests[i].raised =>
            \A j \in (i + 1)..Len(hist.requests) :
                hist.requests[j].inqryBgnDate # hist.requests[i].inqryBgnDate

\* every window of the walk is crawled whatever list calls raised: a run
\* that neither budget stopped has gone through all its windows
AllWindowsCrawled ==
    (Windowed /\ hist.stop = "range") =>
        /\ loop.current_end <= run.start_date
        /\ Len(hist.windows) = loop.windows_processed

\* C10: when a list call raises (retries exhausted), the window is left and
\* counted, the records written for its earlier pages stay in the log and in
\* the counters, the run goes on with the next window, and no further page
\* of the aborted window is ever requested.
C10_ListFailureAbortsWindowOnly ==
    /\ [][ListCallRaised =>
            /\ pc' = "window_loop"
            /\ temp_f' = temp_f
            /\ loop'.windows_processed = loop.windows_processed + 1
            /\ loop'.total_products = loop.total_products + win.products
            /\ loop'.pages_processed = loop.pages_processed + win.pages
            /\ loop'.current_end = loop.current_start - 1
            /\ result' = result]_vars
    /\ [][mode = "sync" => SubSeq(temp_f', 1, Len(temp_f)) = temp_f]_vars
    /\ [](NoPageAfterFailure /\ AllWindowsCrawled)

\* a run whose first window was aborted by a list call that raised on page 2,
\* after the records of page 1 were written, and that crawled a later window
\* whose records follow them in the log
C10_Witness ==
    /\ Windowed
    /\ Len(hist.requests) >= 3
    /\ hist.requests[2].raised
    /\ hist.requests[2].pageNo = 2
    /\ hist.requests[1].items = 1
    /\ Len(hist.windows) >= 2
    /\ Len(temp_f) = 2
    /\ temp_f[1]["window_start"] # temp_f[2]["window_start"]

\* ------------------------------------------------- claims on the conversion

\* a conversion has run
Converted == mode = "convert" /\ conv.n >= 1

\* the records of the well-formed lines of a log
WellFormed(log) ==
    LET lines == SelectSeq(log, LAMBDA l : l.kind = "record")
    IN  [i \in 1..Len(lines) |-> lines[i].obj]

\* the conversion wrote a new file (it did not append to an existing one)
NewFile == Converted /\ conv.res.success /\ ~(conv.opts.append /\ conv.before.exists)

\* the conversion appended to an existing file
Appended == Converted /\ conv.res.success /\ conv.opts.append /\ conv.before.exists

\* the rows the conversion added to the existing file
AppendedRows ==
    SubSeq(output_csv.lines, Len(conv.before.lines) + 1, Len(output_csv.lines))

\* C12: in append mode onto a file whose header is H, every row the run
\* appends has |H| cells laid out in the column order of H, whatever columns
\* the new records have.
C12_AppendedRowsConformToHeader ==
    Appended =>
        /\ conv.header = conv.before.lines[1]
        /\ \A i \in 1..Len(AppendedRows) :
               Len(AppendedRows[i]) = Len(conv.before.lines[1])

\* the header the records of the log give, and its columns that the existing
\* header does not have
HeaderOfLog ==
    LET recs == WellFormed(conv.log)
    IN  BuildHeader(SortedCols(AllBasicCols(recs), conv.opts.sanitize),
                    SortedCols(AllAttrCols(recs), conv.opts.sanitize),
                    conv.opts.explode_attributes)

Drift == Range(HeaderOfLog) \ Range(conv.before.lines[1])

\* C13: appending records that introduce columns the existing header H does
\* not have fails with a result that names them when fail_on_new_columns is
\* set and leaves the file alone; otherwise it succeeds with H as the header,
\* so that every appended row is laid out on H and has none of them.
C13_SchemaDriftRejectedOrDropped ==
    (Converted /\ conv.opts.append /\ conv.before.exists /\ Drift # {}) =>
        IF conv.opts.fail_on_new_columns
        THEN /\ ~conv.res.success
             /\ conv.res.error = "New columns detected in append mode"
             /\ conv.res.new_columns = Drift
             /\ output_csv = conv.before
        ELSE /\ conv.res.success
             /\ conv.header = conv.before.lines[1]
             /\ output_csv.lines[1] = conv.before.lines[1]
             /\ Len(AppendedRows) = Len(WellFormed(conv.log))
             /\ \A i \in 1..Len(AppendedRows) :
                    Len(AppendedRows[i]) = Len(conv.before.lines[1])

\* records with a column the existing file lacks were appended, laid out on
\* the existing header
C13_Witness ==
    /\ Appended
    /\ Drift # {}
    /\ ~conv.opts.fail_on_new_columns
    /\ Len(AppendedRows) = 2

\* the cell of a row under the column col of the header of the conversion
Cell(row, col) == row[CHOOSE j \in 1..Len(conv.header) : conv.header[j] = col]

\* C14: converted with explode_attributes into a new file, a record with
\* detail_success = true and attributes has "1" in the column detail_success
\* and the value of each of its attributes in that attribute's column.
C14_ExplodedAttributesKeepValues ==
    (NewFile /\ conv.opts.explode_attributes) =>
        \A i \in 1..Len(WellFormed(conv.log)) :
            LET rec == WellFormed(conv.log)[i]
                row == output_csv.lines[i + 1]
                attributes == dict_get(rec, ATTRIBUTES, <<>>)
            IN  (dict_get(rec, DETAIL_SUCCESS, FALSE) = TRUE /\ attributes # <<>>) =>
                    /\ Cell(row, DETAIL_SUCCESS) = "1"
                    /\ \A a \in 1..Len(attributes) :
                           Cell(row, AttrColName(attributes[a][1], conv.opts.sanitize))
                               = attributes[a][2]

\* the names of a sequence are in lexicographic order
InOrder(names) == \A i \in 1..(Len(names) - 1) : ~LexLess(names[i + 1], names[i])

\* C15: the header of a new file is the basic columns followed by the
\* attribute columns (prefixed attr_) or by attributes_json, and with
\* sanitize the basic columns and the attribute columns are each in
\* lexicographic order of their sanitised names.
C15_HeaderSortedBySanitizedNames ==
    NewFile =>
        /\ conv.header = HeaderOfLog
        /\ conv.opts.sanitize =>
               /\ InOrder(conv.res.basic_columns)
               /\ InOrder(conv.res.attr_columns)

\* C16: the lines that do not decode are passed over in both passes: the
\* conversion does what it does on the log without them (same result, same
\* header, same file), it succeeds whenever no new column is rejected, and
\* the rows written are as many as the well-formed lines.
C16_UndecodableLinesSkipped ==
    Converted =>
        LET clean == SelectSeq(conv.log, LAMBDA l : l.kind = "record")
            c == convert_temp_to_csv(clean, conv.before,
                     ReadExistingHeader(conv.opts.append, conv.before),
                     conv.opts, FALSE)
        IN  /\ conv.res = c.res
            /\ conv.header = c.header
            /\ output_csv = c.out
            /\ conv.res.success => conv.res.rows = Len(clean)
            /\ ~conv.res.success => conv.res.error = "New columns detected in append mode"
            /\ NewFile => /\ conv.header = HeaderOfLog
                          /\ Len(output_csv.lines) = 1 + Len(clean)

\* a log of an undecodable line and a record, converted into one row
C16_Witness ==
    /\ Converted
    /\ Len(conv.log) = 2
    /\ conv.log[1].kind = "garbage"
    /\ conv.log[2].kind = "record"
    /\ conv.res.success
    /\ conv.res.rows = 1

\* C17: a log converted twice with the same arguments, append off, gives the
\* same header and the same row count, and the second conversion leaves the
\* file the first one wrote, whatever file the first one found.
C17_ConversionIdempotent ==
    /\ (Converted /\ ~conv.opts.append) =>
           /\ conv.res.success
           /\ output_csv.lines = <<conv.header>> \o SubSeq(output_csv.lines, 2, 1 + conv.res.rows)
    /\ (Converted /\ conv.n = 2 /\ conv.opts = conv.prev.opts /\ ~conv.opts.append) =>
           /\ conv.header = conv.prev.header
           /\ conv.res.rows = conv.prev.res.rows
           /\ conv.res = conv.prev.res
           /\ output_csv = conv.before

\* a log of two records converted a second time with the same arguments over
\* the file of the first conversion
C17_Witness ==
    /\ Converted
    /\ conv.n = 2
    /\ conv.opts = conv.prev.opts
    /\ ~conv.opts.append
    /\ conv.res.rows = 2
    /\ conv.before.exists

\* --------------------------------------------- claims on the async window

\* C11: once the crawl of page p of an async window has failed, temp_f holds
\* no record of a page of the window with a number greater than p.
C11_FailedPageAbortsWindow ==
    mode = "window"
    => \A p \in aw.failed :
           \A i \in 1..Len(aw.written) : aw.written[i].page_no < p

\* the number of items the upstream holds for page p of the window
WindowItems(p) == UpstreamItems(p, aw.last, aw.last_items)

\* C25: an async window requests pages beyond the first only when the first
\* page was full, requests no page above the cap of 20 pages, and requests no
\* further batch once a batch held a page with zero items.
C25_NoBatchAfterEmptyPage ==
    mode = "window"
    => /\ \A i \in 1..Len(aw.requested) : \A k \in 1..Len(aw.requested[i]) :
              LET p == aw.requested[i][k]
              IN  /\ p <= ASYNC_MAX_PAGES
                  /\ p > 1 => (WindowItems(1) >= NUM_ROWS /\ 1 \notin aw.failed)
                  /\ WindowItems(p) = 0 => i = Len(aw.requested)

\* ------------------------------------------------- claims on the end of a run

\* crawl_to_csv has returned after the crawl of its windows
Finished == mode = "finished" /\ pc = "done"

\* the window loop was left by one of its two breaks
Truncated == hist.stop \in {"cap", "runtime"}

\* the conversion of the run rejected columns the existing header lacks
Rejected == ~final.success /\ "new_columns" \in DOMAIN final

C19_FailureLeavesTempFile ==
    /\ (Finished /\ hist.fault # "none") => ~final.success
    /\ (Finished /\ ~final.success)
       => /\ "error" \in DOMAIN final
          /\ "temp_deleted" \notin DOMAIN final
          /\ temp_ndjson = "present"
    /\ temp_ndjson = "deleted"
       => /\ Finished
          /\ final.success
          /\ ~hist.keep_temp
          /\ final.temp_deleted
    /\ (Finished /\ final.success /\ hist.keep_temp)
       => temp_ndjson = "present" /\ ~final.temp_deleted
    /\ mode = "sync" => temp_ndjson = "present"

\* a run whose conversion raised after records were written has returned
C19_Witness ==
    /\ Finished
    /\ hist.fault = "converting"
    /\ ~hist.keep_temp
    /\ Len(temp_f) >= 1
    /\ ~final.success
    /\ temp_ndjson = "present"

\* the counters of _crawl_windows_to_temp
Counters ==
    {"windows_processed", "pages_processed", "total_products",
     "success_details", "failed_details"}

\* C20: the result of a run that failed in the window loop or in the
\* conversion carries the counters accumulated before the failure.
C20_FailureCarriesCounters ==
    (Finished /\ ~final.success)
    => /\ "error" \in DOMAIN final
       /\ Counters \subseteq DOMAIN final
       /\ \A k \in Counters : final[k] = result[k]

\* ------------------------------------------------ claims on the AuthService

\* C22: verify_token(t) returns a payload only for a token t of the store
\* that has not expired, and then the payload of t; verifying an expired
\* token of the store returns None and removes it; revoke_token(t) returns
\* True exactly when t is in the store and leaves t out of the store; after a
\* revoke_token(t) that returned True, verify_token(t) returns None and
\* revoke_token(t) returns False; neither call changes another token.
C22_VerifyOnlyActiveUnexpired ==
    LET l == auth.last
        t == l.token
        before == l.before
        after == auth.active_tokens
    IN  (mode = "auth" /\ l.op \in {"verify", "revoke"})
        => /\ (l.op = "verify" /\ l.ret.ok)
              => /\ t \in DOMAIN before
                 /\ t.jwt.exp > l.now
                 /\ l.ret.payload = t.jwt
                 /\ t \in DOMAIN after
           /\ (l.op = "verify" /\ t \in DOMAIN before /\ t.jwt.exp <= l.now)
              => ~l.ret.ok /\ t \notin DOMAIN after
           /\ (l.op = "verify" /\ t \notin DOMAIN before) => ~l.ret.ok
           /\ l.op = "revoke"
              => /\ l.ret.ok <=> t \in DOMAIN before
                 /\ t \notin DOMAIN after
           /\ (l.prev.op = "revoke" /\ l.prev.ok /\ l.prev.token = t) => ~l.ret.ok
           /\ DOMAIN after \subseteq DOMAIN before
           /\ \A u \in (DOMAIN before) \ {t} :
                  u \in DOMAIN after /\ after[u] = before[u]

\* an unexpired token is verified, revoked with True and verified again,
\* while another token stays in the store
C22_Witness ==
    /\ mode = "auth"
    /\ auth.last.op = "verify"
    /\ ~auth.last.ret.ok
    /\ auth.last.token.jwt.exp > auth.last.now
    /\ auth.last.prev.op = "revoke"
    /\ auth.last.prev.ok
    /\ auth.last.prev.token = auth.last.token
    /\ auth.active_tokens # EmptyStore
\* ------------------------------------------ claims on the shared async client

\* C21: the session a run opened on entering its scope is the client's
\* session, open, for as long as that run is inside; every request of the run
\* goes through it; and once the run has left, its session has been closed
\* exactly once - also when two runs overlap.
C21_SessionScopedToRun ==
    \A r \in Runs :
        LET rn == client.run[r]
        IN  /\ rn.pc = "inside" =>
                  /\ client.session = rn.own
                  /\ client.closed[rn.own] = 0
            /\ \A i \in 1..Len(rn.requests) :
                  ~rn.requests[i].raised /\ rn.requests[i].via = rn.own
            /\ rn.pc = "left" => client.closed[rn.own] = 1

\* ------------------------------------------ claims on the client's semaphore

\* the calls that are over or were never started
Quiet == \A t \in TaskIds : task[t].st \in {"none", "returned", "raised"}

\* C23: the permits that are out are those of the requests in flight (a task
\* waiting for a permit or sleeping before a retry holds none); every request
\* waiting for a permit eventually obtains one, and every page crawl
\* eventually completes, given that every request in flight eventually
\* returns or fails.
C23_EveryPageCrawlCompletes ==
    /\ [](MaxConcurrent - sem = Cardinality(InFlight))
    /\ \A t \in TaskIds : (task[t].st = "wait") ~> (task[t].st = "inflight")
    /\ (mode = "async") ~> (Quiet /\ \A p \in PageNos : apage[p].st = "done")

\* after its backoff sleep a call waits for a permit while every permit is
\* out
C23_Witness ==
    /\ sem = 0
    /\ \E t \in TaskIds : task[t].st = "wait" /\ task[t].attempt >= 1

\* C24: a request is issued only by taking a permit that was available, and
\* its completion, by a response or by an exception, gives the permit back;
\* once all requests of the pages have finished, all MaxConcurrent permits
\* are available.
C24_PermitTakenAndGivenBack ==
    [][/\ \A t \in TaskIds :
            /\ (task[t].st # "inflight" /\ task'[t].st = "inflight") =>
                   (sem > 0 /\ sem' = sem - 1)
            /\ (task[t].st = "inflight" /\ task'[t].st # "inflight") =>
                   sem' = sem + 1
       /\ Quiet' => sem' = MaxConcurrent]_vars

\* all page crawls are over, after requests that returned and a call whose
\* attempts all failed
C24_Witness ==
    /\ mode = "async"
    /\ Quiet
    /\ sem = MaxConcurrent
    /\ \A p \in PageNos : apage[p].st = "done"
    /\ \E t \in TaskIds : task[t].st = "raised"
    /\ \E t \in TaskIds : t[2] >= 1 /\ task[t].st = "returned"

\* ------------------------------------- claims on the page loop of a window

\* C26: the list requests of a window of the sync crawler are those of the
\* pages 1, 2, 3, ... in this order, each with numOfRows = 100; the first page
\* with zero items is the last one requested and is not counted in pages; and
\* no more than DEFAULT_MAX_PAGES pages are requested.
C26_PagesInOrderUpToLimit ==
    mode = "pages"
    => /\ \A i \in 1..Len(sw.requests) :
              /\ sw.requests[i].pageNo = i
              /\ sw.requests[i].numOfRows = 100
              /\ sw.requests[i].items = 0 =>
                     (i = Len(sw.requests) /\ sw.pc = "returned")
       /\ Len(sw.requests) <= DEFAULT_MAX_PAGES
       /\ sw.pages = Cardinality({i \in 1..Len(sw.requests) : sw.requests[i].items > 0})

\* a window has returned at the page limit, the upstream holding more pages
C26_Witness ==
    /\ mode = "pages"
    /\ sw.pc = "returned"
    /\ sw.pages = DEFAULT_MAX_PAGES
    /\ sw.last > DEFAULT_MAX_PAGES

\* -------------------------------------- claims on the runtime budget

\* C27: the runtime budget is looked at only at the head of the window loop:
\* the run is cut for its runtime only there, a window that has started is
\* left only by its own return (whatever the clock), and no window starts
\* once the elapsed time exceeds the budget.
C27_BudgetCheckedBetweenWindows ==
    [][/\ (hist'.stop = "runtime" /\ hist.stop # "runtime") =>
             (pc = "window_loop" /\ clock > run.max_runtime_sec)
       /\ (InWindow /\ ~InWindow') =>
             (pc' = "window_loop"
              /\ loop'.windows_processed = loop.windows_processed + 1)
       /\ Len(hist'.windows) > Len(hist.windows) =>
             clock <= run.max_runtime_sec]_vars

\* the budget has expired while the items of a window are processed, one
\* being written and another to come
C27_Witness ==
    /\ mode = "sync"
    /\ pc = "item_loop"
    /\ win.next > 1
    /\ clock > run.max_runtime_sec

\* ------------------------------------ claims on the end of the window loop

\* ceil(total_days / window_days)
CeilDiv(total_days, window_days) == (total_days + window_days - 1) \div window_days

\* C29: every processed window moves current_end back by at least one day and
\* at most window_days days; the windows processed never exceed
\* ceil(total_days / window_days); and the window loop, once entered, is
\* left (each window crawl terminating).
C29_WindowLoopTerminates ==
    /\ [][loop'.windows_processed = loop.windows_processed + 1 =>
             /\ loop.current_end - loop'.current_end >= 1
             /\ loop.current_end - loop'.current_end <= run.window_days]_vars
    /\ [](mode = "sync" =>
             loop.windows_processed <= CeilDiv(run.total_days, run.window_days))
    /\ (mode = "sync" /\ pc = "window_loop") ~> (pc = "windowed")

\* a run without window cap, never cut by its runtime, has left the window
\* loop after ceil(total_days / window_days) windows, two or more
C29_Witness ==
    /\ mode = "sync"
    /\ pc = "windowed"
    /\ run.max_windows_per_call = 0
    /\ hist.stop = "range"
    /\ loop.windows_processed >= 2
    /\ loop.windows_processed = CeilDiv(run.total_days, run.window_days)

\* ------------------------------------------ claims on the continuation

\* the windows of a run that no budget cuts, from current_end on
RECURSIVE WindowsFrom(_, _, _)
WindowsFrom(current_end, window_days, start_date) ==
    IF ~WindowLoopCond(current_end, start_date) THEN <<>>
    ELSE LET current_start == WindowStart(current_end, window_days, start_date)
         IN  <<[start |-> current_start, end |-> current_end]>>
             \o WindowsFrom(NextWindowEnd(current_start), window_days, start_date)

\* the windows of the uninterrupted run with the arguments of the first run
Uninterrupted ==
    WindowsFrom(chain.origin.end_date, chain.origin.window_days, chain.origin.start_date)

\* C28: a follow-up run, started with the reported next_anchor_end_date as
\* anchor, remaining_days + 1 as total_days and the same window_days, has the
\* start date of the original run, and the windows of the chained runs are
\* those of the uninterrupted run: a prefix of them while the chain goes on,
\* all of them once a run reports complete.
C28_ChainedRunsEqualOneRun ==
    mode = "chain"
    => LET windows == chain.done \o chain.windows
       IN  /\ chain.run.start_date = chain.origin.start_date
           /\ Len(windows) <= Len(Uninterrupted)
           /\ windows = SubSeq(Uninterrupted, 1, Len(windows))
           /\ (chain.pc = "returned" /\ ~chain.result.incomplete)
                  => windows = Uninterrupted

\* the third run of a chain has reported complete, each run having
\* processed a window
C28_Witness ==
    /\ mode = "chain"
    /\ chain.runs = 3
    /\ chain.pc = "returned"
    /\ ~chain.result.incomplete
    /\ Len(chain.done) >= 2
    /\ Len(chain.windows) >= 1

\* ------------------------------------------------ claims on the counts

\* the records the pages written by an async window hold
RECURSIVE WrittenRecords(_)
WrittenRecords(written) ==
    IF written = <<>> THEN 0
    ELSE Head(written).records + WrittenRecords(Tail(written))

====
